---- MODULE Spec2Model ----
(***************************************************************************)
(* A model of fortrandep: the directive preprocessor (preprocessor.py),    *)
(* the unit scanner (core.py, units.py) and the project with its           *)
(* dependencies (dependencies.py).                                         *)
(*                                                                         *)
(* A line of source text is a sequence of tokens.  A directive keyword     *)
(* ("#ifdef", "#endif", ...) is one token; every other token is a single   *)
(* character.  The string tests of the code (startswith, in, find, strip,  *)
(* split, replace) are operators over such sequences.                      *)
(***************************************************************************)
EXTENDS Integers, Sequences, FiniteSets, TLC

VARIABLES
    macros,        \* FortranPreprocessor.macros: the dict, in insertion order
    search_paths,  \* FortranPreprocessor.search_paths
    text,          \* the argument of the call (parse, get_modules)
    contents,      \* the working line sequence of parse
    ifs,           \* _parse_if_directives: the index lists of the if blocks
    idx,           \* _parse_if_directives: the loop variable i (1-based)
    pc,            \* the position of the running call
    err,           \* the exception that ended the call, "none" otherwise
    run,           \* 1 in the first parse of a text, 2 when parse runs on its own output
    prev,          \* the result of the first parse, while the second runs
    macros0,       \* the macro table as it was when parse was called
    modules,       \* FortranFile.get_modules: the units found
    given,         \* the directories, in the order they were given to the preprocessor
    fmodule,       \* the FortranModule under construction
    uses,          \* FortranFile.uses
    project,       \* the FortranProject: files, modules, programs, success, the two maps
    walk,          \* _get_all_used_modules: the frames of the recursion and the state list
    output         \* the lines write has written

vars == <<macros, search_paths, text, contents, ifs, idx, pc, err, run, prev,
          macros0, modules, given, fmodule, uses, project, walk, output>>

\* the variables of the preprocessor and of get_modules
parser == <<macros, search_paths, text, contents, ifs, idx, pc, err, run, prev,
            macros0, modules, given>>

\* the variables of the units, files and projects
built == <<fmodule, uses, project, walk, output>>

---------------------------------------------------------------------------
(* Strings                                                                 *)

Range(s) == {s[i] : i \in 1..Len(s)}

\* tokens whose text starts with '#'
HashToks == {"#ifdef", "#ifndef", "#else", "#endif", "#define", "#include", "#elif"}

\* str.lower() of one token
LowerTok(t) ==
    CASE t = "A" -> "a"
      [] t = "B" -> "b"
      [] t = "USE" -> "use"
      [] t = "MODULE" -> "module"
      [] OTHER -> t

Lower(s) == [i \in 1..Len(s) |-> LowerTok(s[i])]

RECURSIVE LStrip(_)
LStrip(s) == IF s # <<>> /\ Head(s) = " " THEN LStrip(Tail(s)) ELSE s

RECURSIVE RStrip(_)
RStrip(s) ==
    IF s # <<>> /\ s[Len(s)] = " " THEN RStrip(SubSeq(s, 1, Len(s) - 1)) ELSE s

Strip(s) == RStrip(LStrip(s))

\* s[n:] with a 0-based n, as Python slices
From(s, n) == SubSeq(s, n + 1, Len(s))

\* sub occurs in s at the 1-based position i
OccursAt(s, sub, i) ==
    /\ i >= 1
    /\ i + Len(sub) - 1 <= Len(s)
    /\ SubSeq(s, i, i + Len(sub) - 1) = sub

\* "sub in s"
Contains(s, sub) == \E i \in 1..(Len(s) + 1) : OccursAt(s, sub, i)

\* line.lstrip().startswith(t), t one of the prefixes the code tests
StartsWith(s, toks) == LStrip(s) # <<>> /\ Head(LStrip(s)) \in toks

\* str.find(tok): the 0-based index of the first token among toks, -1 if none
Find(s, toks) ==
    IF \E i \in 1..Len(s) : s[i] \in toks
    THEN (CHOOSE i \in 1..Len(s) : s[i] \in toks /\ \A j \in 1..(i - 1) : s[j] \notin toks) - 1
    ELSE -1

\* the text that follows the first token among toks: Line[ind+len(tok):]
After(s, toks) == From(s, Find(s, toks) + 1)

\* str.replace(name, value): leftmost occurrences, not overlapping, the
\* inserted value is not scanned again
RECURSIVE Replace(_, _, _)
Replace(s, name, value) ==
    IF s = <<>> \/ name = <<>> THEN s
    ELSE IF OccursAt(s, name, 1)
         THEN value \o Replace(From(s, Len(name)), name, value)
         ELSE <<Head(s)>> \o Replace(Tail(s), name, value)

\* the first field of str.split("=")
RECURSIVE UpTo(_, _)
UpTo(s, t) ==
    IF s = <<>> \/ Head(s) = t THEN <<>> ELSE <<Head(s)>> \o UpTo(Tail(s), t)

\* str.split("=")[0] and str.split("=")[1]
SplitEq0(s) == UpTo(s, "=")
SplitEq1(s) == UpTo(From(s, Len(UpTo(s, "=")) + 1), "=")

\* entry.split(maxsplit=1) of a stripped entry: the first word and the rest
SplitWord(entry) == UpTo(entry, " ")
SplitRest(entry) == LStrip(From(entry, Len(UpTo(entry, " "))))

---------------------------------------------------------------------------
(* The macro table: a dict, kept as the sequence of its items in insertion *)
(* order.  A value is a string or the integer 1.                           *)

IntOne == [int |-> TRUE, str |-> <<>>]
Str(s) == [int |-> FALSE, str |-> s]

Names(m) == {m[i].name : i \in 1..Len(m)}

\* self.macros[name]
Value(m, name) == m[CHOOSE i \in 1..Len(m) : m[i].name = name].value

\* self.macros[name] = value: a new key goes last, an old key keeps its place
SetItem(m, name, value) ==
    IF name \in Names(m)
    THEN [i \in 1..Len(m) |-> IF m[i].name = name
                               THEN [name |-> name, value |-> value]
                               ELSE m[i]]
    ELSE Append(m, [name |-> name, value |-> value])

\* FortranPreprocessor.define: the table after define(definition)
DefineTable(m, definition) ==
    IF "=" \in Range(definition)
    THEN SetItem(m, Strip(SplitEq0(definition)), Str(Strip(SplitEq1(definition))))
    ELSE SetItem(m, Strip(definition), IntOne)

---------------------------------------------------------------------------
(* The include files on disk: directory -> file name -> lines              *)

Quote == "'"     \* a quote character

Dirs == {"p1", "p2", "p3"}

Disk ==
    [d \in Dirs |->
        CASE d = "p1" -> [n \in {<<"f">>} |-> << <<"1">> >>]
          [] d = "p2" -> [n \in {<<"f">>, <<"g">>} |->
                             IF n = <<"f">>
                             THEN << <<"2">> >>
                             ELSE << <<"#include", " ", Quote, "f", Quote>>, <<"3">> >>]
          [] OTHER    -> [n \in {<<"d">>} |->
                             << <<"#define", " ", "A">>, <<"#ifdef", " ", "A">>, <<"A">>,
                                <<"#endif">> >>]]

\* os.path.isfile(os.path.join(d, name))
IsFile(d, name) == name \in DOMAIN Disk[d]

\* the permutations of a set of directories, as sequences
Orders(S) ==
    {q \in [1..Cardinality(S) -> S] : \A i, j \in 1..Cardinality(S) : q[i] = q[j] => i = j}

---------------------------------------------------------------------------
(* _parse_include_directives                                               *)

IfToks      == {"#ifdef", "#ifndef"}             \* tokens that contain "#if"
IncludeToks == {"#include", "include"}           \* tokens that contain "include"

\* line.lstrip().startswith("#") and "include" in line
IsIncludeLine(Line) ==
    StartsWith(Lower(Line), HashToks) /\ Range(Lower(Line)) \cap IncludeToks # {}

\* the file name of an include line, quotes removed
IncludeName(Line) ==
    LET name == Strip(After(Line, IncludeToks))
    IN  IF name # <<>> /\ Head(name) = Quote
        THEN SubSeq(name, 2, Len(name) - 1)
        ELSE name

\* any(exists)
IncludeExists(paths, name) == \E i \in 1..Len(paths) : IsFile(paths[i], name)

\* filenames[exists.index(True)], read
IncludeContents(paths, name) ==
    LET i == CHOOSE k \in 1..Len(paths) :
                 IsFile(paths[k], name) /\ \A j \in 1..(k - 1) : ~IsFile(paths[j], name)
    IN  Disk[paths[i]][name]

\* the ValueError of an include file that is in no search path
IncludeFails(txt, paths) ==
    \E i \in 1..Len(txt) :
        IsIncludeLine(txt[i]) /\ ~IncludeExists(paths, IncludeName(txt[i]))

\* the lines of the included files alone, the other lines not kept
RECURSIVE IncludedOnly(_, _)
IncludedOnly(txt, paths) ==
    IF txt = <<>> THEN <<>>
    ELSE (IF IsIncludeLine(Head(txt))
          THEN IncludeContents(paths, IncludeName(Head(txt)))
          ELSE <<>>) \o IncludedOnly(Tail(txt), paths)

RECURSIVE IncludeLines(_, _)
IncludeLines(txt, paths) ==
    IF txt = <<>> THEN <<>>
    ELSE (IF IsIncludeLine(Head(txt))
          THEN IncludeContents(paths, IncludeName(Head(txt)))
          ELSE <<Head(txt)>>) \o IncludeLines(Tail(txt), paths)

---------------------------------------------------------------------------
(* _parse_define_directives                                                *)

\* the definition string "{}={}".format(name, value) of a #define line
DefineString(Line) ==
    LET entry == Strip(After(Line, {"#define"}))
        name  == Strip(SplitWord(entry))
        rest  == Strip(SplitRest(entry))
    IN  name \o <<"=">> \o (IF rest = <<>> THEN <<"1">> ELSE rest)

\* one pass over txt from line i (1-based) on; st holds if_count, the lines
\* kept, the macro table and the number of definitions found
RECURSIVE DefineLoop(_, _, _)
DefineLoop(txt, i, st) ==
    IF i > Len(txt) THEN st
    ELSE LET Line == txt[i]
             line == Lower(Line)
             c1   == IF StartsWith(line, IfToks) THEN st.if_count + 1 ELSE st.if_count
             c2   == IF StartsWith(line, {"#endif"}) THEN c1 - 1 ELSE c1
         IN  IF StartsWith(line, {"#define"}) /\ c2 < 1
             THEN IF Strip(After(Line, {"#define"})) = <<>>
                  THEN [st EXCEPT !.err = "IndexError"]      \* values[0] of no values
                  ELSE DefineLoop(txt, i + 1,
                          [st EXCEPT !.if_count = c2,
                                     !.macros = DefineTable(st.macros, DefineString(Line)),
                                     !.count = st.count + 1])
             ELSE DefineLoop(txt, i + 1,
                     [st EXCEPT !.if_count = c2, !.contents = Append(st.contents, Line)])

ParseDefineDirectives(txt, m) ==
    DefineLoop(txt, 1, [if_count |-> 0, contents |-> <<>>, macros |-> m, count |-> 0,
                        err |-> "none"])

---------------------------------------------------------------------------
(* Python slices and lists of indices                                      *)

Min(a, b) == IF a < b THEN a ELSE b
Max(a, b) == IF a > b THEN a ELSE b

\* a slice bound, brought into 0..len as Python does
Bound(n, len) == IF n < 0 THEN Max(n + len, 0) ELSE Min(n, len)

\* s[a:b]
Slice(s, a, b) ==
    LET lo == Bound(a, Len(s))
        hi == Bound(b, Len(s))
    IN  IF lo < hi THEN SubSeq(s, lo + 1, hi) ELSE <<>>

---------------------------------------------------------------------------
(* _parse_if_directives: the scan that finds the blocks.  ifs is the list  *)
(* of index lists (0-based line numbers, as in the code); active holds the *)
(* 0-based numbers of the open blocks.                                     *)

RECURSIVE ScanLoop(_, _, _)
ScanLoop(txt, i, st) ==
    IF i > Len(txt) THEN st
    ELSE LET line  == Lower(txt[i])
             toks  == Range(line)
             \* "#if" in line
             s1 == IF toks \cap IfToks # {}
                   THEN [st EXCEPT !.ifs = Append(st.ifs, <<i - 1>>),
                                   !.active = Append(st.active, Len(st.ifs)),
                                   !.Nif = st.Nif + 1]
                   ELSE st
             \* "#else" in line
             e2 == "#else" \in toks /\ s1.active = <<>>
             s2 == IF "#else" \in toks /\ ~e2
                   THEN LET k == s1.active[Len(s1.active)] + 1
                        IN  [s1 EXCEPT !.ifs[k] = Append(s1.ifs[k], i - 1)]
                   ELSE s1
             \* "#endif" in line
             e3 == "#endif" \in toks /\ s2.active = <<>>
             s3 == IF "#endif" \in toks /\ ~e3
                   THEN LET k == s2.active[Len(s2.active)] + 1
                        IN  [s2 EXCEPT !.ifs[k] = Append(s2.ifs[k], i - 1),
                                       !.active = SubSeq(s2.active, 1, Len(s2.active) - 1),
                                       !.Nendif = s2.Nendif + 1]
                   ELSE s2
         IN  IF ~StartsWith(line, HashToks) THEN ScanLoop(txt, i + 1, st)
             ELSE IF e2 \/ e3 THEN [st EXCEPT !.err = "ValueError"]
             ELSE ScanLoop(txt, i + 1, s3)

\* the scan alone, the two counts not compared
FindIfsUncounted(txt) ==
    ScanLoop(txt, 1, [ifs |-> <<>>, active |-> <<>>, Nif |-> 0, Nendif |-> 0,
                      err |-> "none"])

\* the blocks of txt, or the error of the scan
FindIfs(txt) ==
    LET st == ScanLoop(txt, 1, [ifs |-> <<>>, active |-> <<>>, Nif |-> 0, Nendif |-> 0,
                                err |-> "none"])
    IN  IF st.err # "none" THEN st
        ELSE IF st.Nif # st.Nendif THEN [st EXCEPT !.err = "SyntaxError"]
        ELSE st

---------------------------------------------------------------------------
(* _parse_single_if                                                        *)

NoElse == -1000      \* ielse = None

SingleIf(txt, ielse, m) ==
    LET Ninput == Len(txt)
        index_threshold == IF ielse = NoElse THEN Ninput - 1 ELSE ielse
        fLine == txt[1]
        fline == Lower(fLine)
        ndef  == "#ifndef" \in Range(fline)          \* "ifndef" in fline
        def   == "#ifdef" \in Range(fline)           \* "ifdef" in fline
        name  == IF ndef THEN Strip(After(fLine, {"#ifndef"}))
                         ELSE Strip(After(fLine, {"#ifdef"}))
        is_defined == name \in Names(m)
        used_first == (~ndef /\ def /\ is_defined) \/ (ndef /\ ~is_defined)
        block == IF used_first
                 THEN Slice(txt, 1, index_threshold)
                 ELSE Slice(txt, index_threshold + 1, -1)
        d == ParseDefineDirectives(block, m)
        bad == [err |-> "ValueError", contents |-> <<>>, Nremoved |-> 0,
                index_threshold |-> 0, used_first_block |-> FALSE, macros |-> m]
    IN  IF Ninput < 1 THEN bad
        ELSE IF ~ndef /\ ~def THEN bad
        ELSE IF ~StartsWith(Lower(txt[Ninput]), {"#endif"}) THEN bad
        ELSE [err |-> d.err, contents |-> d.contents,
              Nremoved |-> (Ninput - Len(block)) + d.count,
              index_threshold |-> index_threshold,
              used_first_block |-> used_first, macros |-> d.macros]

---------------------------------------------------------------------------
(* _parse_if_directives: one pass of the loop that resolves block i        *)

\* the index list of block j after block i, with the results r, was resolved
AdjustBlock(blk, r, istart, iend) ==
    IF Len(blk) < 1 THEN blk
    ELSE LET s == blk[1]
             index_threshold == r.index_threshold + istart
             case1 == r.used_first_block /\ s < index_threshold
             case2 == ~r.used_first_block /\ s > index_threshold /\ s < iend
             case3 == s > iend
             Nadjust == IF case3 THEN r.Nremoved
                        ELSE IF case2 THEN r.Nremoved - 1
                        ELSE IF case1 THEN 1
                        ELSE 0
         IN  IF case1 \/ case2 \/ case3
             THEN [k \in 1..Len(blk) |-> blk[k] - Nadjust]
             ELSE <<>>

\* the working text, the index lists and the macro table after the pass for
\* block i (0-based); err is the exception of _parse_single_if, if any
ResolveBlock(parsed_text, blocks, i, m) ==
    LET if_idx == blocks[i + 1]
        istart == if_idx[1]
        iend   == if_idx[Len(if_idx)]
        if_text == Slice(parsed_text, istart, iend + 1)
        ielse  == IF Len(if_idx) = 3 THEN if_idx[2] - istart ELSE NoElse
        r      == SingleIf(if_text, ielse, m)
    IN  IF Len(if_idx) < 2
        THEN [err |-> "none", text |-> parsed_text, ifs |-> blocks, macros |-> m]
        ELSE IF r.err # "none"
        THEN [err |-> r.err, text |-> parsed_text, ifs |-> blocks, macros |-> r.macros]
        ELSE [err |-> "none",
              text |-> Slice(parsed_text, 0, istart) \o r.contents
                           \o Slice(parsed_text, iend + 1, Len(parsed_text)),
              ifs  |-> [j \in 1..Len(blocks) |->
                           IF j > i + 1 THEN AdjustBlock(blocks[j], r, istart, iend)
                                        ELSE blocks[j]],
              macros |-> r.macros]

---------------------------------------------------------------------------
(* parse: the substitution of the macros                                   *)

\* sorted(self.macros, key=len)[::-1]: a stable sort by length, reversed
ComesBefore(m, i, j) ==
    \/ Len(m[i].name) > Len(m[j].name)
    \/ Len(m[i].name) = Len(m[j].name) /\ i > j

\* sorted(self.macros, key=len): the shortest names first
ShortestFirst(m) ==
    [k \in 1..Len(m) |->
        m[CHOOSE i \in 1..Len(m) :
             Cardinality({j \in 1..Len(m) : ComesBefore(m, i, j)}) = k - 1].name]

SortedMacros(m) ==
    [k \in 1..Len(m) |->
        m[CHOOSE i \in 1..Len(m) :
             Cardinality({j \in 1..Len(m) : ComesBefore(m, j, i)}) = k - 1].name]

\* the inner loop over the names, from the k-th on, for one line
RECURSIVE SubstituteLine(_, _, _, _)
SubstituteLine(line, m, order, k) ==
    IF k > Len(order) THEN [err |-> "none", line |-> line]
    ELSE IF Contains(line, order[k])
         THEN IF Value(m, order[k]).int
              THEN [err |-> "TypeError", line |-> line]   \* replace(name, 1)
              ELSE SubstituteLine(Replace(line, order[k], Value(m, order[k]).str),
                                  m, order, k + 1)
         ELSE SubstituteLine(line, m, order, k + 1)

SubstituteAll(lines, m) ==
    [i \in 1..Len(lines) |-> SubstituteLine(lines[i], m, SortedMacros(m), 1)]

---------------------------------------------------------------------------
(* core.py: UNIT_REGEX, END_REGEX and FortranFile.get_modules.  The words  *)
(* "module", "program", "end" and "procedure" are one token each.          *)

WordChars == {"A", "B", "a", "b", "x", "1", "2", "3", "_"}     \* \w

\* the longest prefix of s made of word characters: what \w* matches
RECURSIVE TakeWord(_)
TakeWord(s) ==
    IF s # <<>> /\ Head(s) \in WordChars THEN <<Head(s)>> \o TakeWord(Tail(s)) ELSE <<>>

\* ^\s*(module(?!\s+procedure)|program)\s*(\w*), case ignored
UnitMatch(line) ==
    LET l == LStrip(Lower(line))
    IN  /\ l # <<>>
        /\ \/ Head(l) = "program"
           \/ /\ Head(l) = "module"
              /\ ~(Len(l) >= 2 /\ l[2] = " " /\ StartsWith(Tail(l), {"procedure"}))

\* ^\s*end\s*(module|program)\s*(\w*)?, case ignored
EndMatch(line) ==
    LET l == LStrip(Lower(line))
    IN  l # <<>> /\ Head(l) = "end" /\ StartsWith(Tail(l), {"module", "program"})

\* unit.group('unit_type').lower() and unit.group('modname').lower()
UnitType(line) == Head(LStrip(Lower(line)))
UnitName(line) == TakeWord(LStrip(Tail(LStrip(Lower(line)))))

\* starts and ends: the 0-based numbers of the matching lines, in file order
Ascending(S) ==
    [k \in 1..Cardinality(S) |->
        CHOOSE x \in S : Cardinality({y \in S : y < x}) = k - 1]

Starts(lines) == Ascending({i - 1 : i \in {n \in 1..Len(lines) : UnitMatch(lines[n])}})
Ends(lines)   == Ascending({i - 1 : i \in {n \in 1..Len(lines) : EndMatch(lines[n])}})

\* the ValueError of get_modules
UnmatchedUnits(lines) ==
    Starts(lines) # <<>> /\ Len(Starts(lines)) # Len(Ends(lines))

\* contains: the dict of the units, in insertion order; a unit found again
\* under the same name replaces the earlier one
RECURSIVE Contained(_, _, _)
Contained(lines, k, dict) ==
    IF k > Len(Starts(lines)) \/ k > Len(Ends(lines)) THEN dict
    ELSE LET start == Starts(lines)[k]
             end   == Ends(lines)[k]
             unit  == [name |-> UnitName(lines[start + 1]),
                       unit_type |-> UnitType(lines[start + 1]),
                       start |-> start, end |-> end,
                       source |-> Slice(lines, start, end + 1)]
         IN  Contained(lines, k + 1,
                 IF \E n \in 1..Len(dict) : dict[n].name = unit.name
                 THEN [n \in 1..Len(dict) |->
                          IF dict[n].name = unit.name THEN unit ELSE dict[n]]
                 ELSE Append(dict, unit))

GetModulesResult(lines) == Contained(lines, 1, <<>>)

---------------------------------------------------------------------------
(* core.py and units.py: USE_REGEX and FortranModule.  The words "use",    *)
(* "intrinsic", "only" and "::" are one token each.                        *)

\* (\s*::\s*|\s+) matches at the head of s
SeparatorAt(s) == StartsWith(s, {"::"}) \/ (s # <<>> /\ Head(s) = " ")

\* what is left of s after the separator
AfterSeparator(s) ==
    IF StartsWith(s, {"::"}) THEN LStrip(Tail(LStrip(s))) ELSE LStrip(s)

\* (\s*,\s*intrinsic\s*)? matches at the head of s with a separator after it;
\* the blanks after "intrinsic" are given back to the separator when needed
IntrinsicAt(s) ==
    LET c == LStrip(s)
    IN  /\ StartsWith(c, {","})
        /\ StartsWith(LStrip(Tail(c)), {"intrinsic"})
        /\ SeparatorAt(Tail(LStrip(Tail(c))))

AfterIntrinsic(s) == Tail(LStrip(Tail(LStrip(s))))

\* re.match(USE_REGEX, line), case ignored
UseMatch(line) ==
    LET l == LStrip(Lower(line))
    IN  /\ l # <<>>
        /\ Head(l) = "use"
        /\ (IntrinsicAt(Tail(l)) \/ SeparatorAt(Tail(l)))

\* found.group('moduse'), in the letters of the line
UseName(line) ==
    LET l == LStrip(line)
        r == Tail(l)
    IN  TakeWord(AfterSeparator(IF IntrinsicAt(Lower(r)) THEN AfterIntrinsic(r) ELSE r))

\* the matches of a sequence of lines, in the order of the lines
RECURSIVE UsedNames(_)
UsedNames(lines) ==
    IF lines = <<>> THEN <<>>
    ELSE (IF UseMatch(Head(lines)) THEN <<UseName(Head(lines))>> ELSE <<>>)
             \o UsedNames(Tail(lines))

\* core.py FortranModule.get_uses: the names lower-cased, list(set(uses))
CoreGetUses(lines) == Orders({Lower(Strip(n)) : n \in Range(UsedNames(lines))})

\* units.py FortranModule.get_uses with macros=None: the names as written,
\* list(set(uses)) of contents[self._defined_at:self._end]
UnitsGetUses(lines, defined_at, end) ==
    Orders({Strip(n) : n \in Range(UsedNames(Slice(lines, defined_at, end)))})

---------------------------------------------------------------------------
(* The inputs                                                              *)

MaxLines == 3        \* the longest text given to parse

IfdefA   == <<"#ifdef", " ", "A">>
IfndefA  == <<"#ifndef", " ", "A">>
Else     == <<"#else">>
Endif    == <<"#endif">>
DefineA  == <<"#define", " ", "A">>
ElifB    == <<"#elif", " ", "B">>
IncludeF == <<"#include", " ", Quote, "f", Quote>>      \* a file in p1 and in p2
IncludeH == <<"#include", " ", Quote, "h", Quote>>      \* a file in no directory

SourceLines ==
    {IfdefA, IfndefA, Else, Endif, DefineA, ElifB, IncludeF, IncludeH, <<"A">>, <<"x">>}

SeqsUpTo(S, n) == UNION {[1..k -> S] : k \in 0..n}

\* the texts of n lines at most
Inputs(n) == SeqsUpTo(SourceLines, n)

\* the macro lists given to the constructor
MacroLists == {<<>>, << <<"A">> >>, << <<"A", "=", "x">> >>, << <<"A", "=", "A", "A">> >>}

\* FortranPreprocessor.__init__: self.define(m) for each m of the list
RECURSIVE MacrosFromList(_, _)
MacrosFromList(list, m) ==
    IF list = <<>> THEN m ELSE MacrosFromList(Tail(list), DefineTable(m, Head(list)))

---------------------------------------------------------------------------
(* The operations                                                          *)

\* the result of a call that has not been made
NoCall == [call |-> "none", name |-> "", err |-> "none", value |-> <<>>]

\* no unit, no file, no project yet
NothingBuilt ==
    /\ fmodule = [impl |-> "none", unit_type |-> <<>>, name |-> <<>>, uses |-> <<>>,
                  found |-> FALSE]
    /\ uses = <<>>
    /\ project = [files |-> <<>>, modules |-> <<>>, programs |-> <<>>, success |-> TRUE,
                        ignore_modules |-> <<>>,
                  depends_by_module |-> <<>>, depends_by_file |-> <<>>,
                  exec_given |-> FALSE, exec_names |-> <<>>]
    /\ walk = NoCall
    /\ output = <<>>

\* a line whose first non-blank character is '#'
IsDirective(line) == StartsWith(line, HashToks)

Fail(e) == pc' = "error" /\ err' = e

\* FortranPreprocessor.define
Define(definition) ==
    /\ pc = "cfg"
    /\ macros' = DefineTable(macros, definition)
    /\ macros0' = macros'
    /\ UNCHANGED <<search_paths, text, contents, ifs, idx, pc, err, run, prev, modules, given, built>>

\* FortranPreprocessor.add_path: list(set(...)) keeps no order
AddPath(p) ==
    /\ pc = "cfg"
    /\ search_paths' \in Orders(Range(search_paths) \cup {p})
    /\ given' = IF p \in Range(given) THEN given ELSE Append(given, p)
    /\ UNCHANGED <<macros, text, contents, ifs, idx, pc, err, run, prev, macros0, modules,
                   built>>

\* parse, first pass: contents = self._parse_include_directives(text)
IncludePass(t) ==
    /\ text' = t
    /\ macros0' = macros
    /\ IF IncludeFails(t, search_paths)
       THEN Fail("ValueError") /\ UNCHANGED contents
       ELSE contents' = IncludeLines(t, search_paths) /\ pc' = "inc" /\ UNCHANGED err
    /\ UNCHANGED <<macros, search_paths, ifs, idx, modules, given, built>>

\* parse(text) is called
ParseInclude ==
    /\ pc = "cfg"
    /\ IncludePass(text)
    /\ UNCHANGED <<run, prev>>

\* parse, second pass: contents = self._parse_define_directives(contents)
ParseDefine ==
    /\ pc = "inc"
    /\ LET d == ParseDefineDirectives(contents, macros)
       IN  /\ macros' = d.macros
           /\ IF d.err # "none"
              THEN Fail(d.err) /\ UNCHANGED contents
              ELSE contents' = d.contents /\ pc' = "def" /\ UNCHANGED err
    /\ UNCHANGED <<search_paths, text, ifs, idx, run, prev, macros0, modules, given, built>>

\* _parse_if_directives: the scan for the blocks and the check of the counts
ScanIfs ==
    /\ pc = "def"
    /\ LET st == FindIfs(contents)
       IN  IF st.err # "none"
           THEN Fail(st.err) /\ UNCHANGED <<ifs, idx>>
           ELSE ifs' = st.ifs /\ idx' = 0 /\ pc' = "if" /\ UNCHANGED err
    /\ UNCHANGED <<macros, search_paths, text, contents, run, prev, macros0, modules, given, built>>

\* _parse_if_directives: one pass of "for i in range(Nif)"
IfStep ==
    /\ pc = "if"
    /\ idx < Len(ifs)
    /\ LET r == ResolveBlock(contents, ifs, idx, macros)
       IN  /\ macros' = r.macros
           /\ IF r.err # "none"
              THEN Fail(r.err) /\ UNCHANGED <<contents, ifs, idx>>
              ELSE /\ contents' = r.text
                   /\ ifs' = r.ifs
                   /\ idx' = idx + 1
                   /\ UNCHANGED <<pc, err>>
    /\ UNCHANGED <<search_paths, text, run, prev, macros0, modules, given, built>>

\* _parse_if_directives: return parsed_text
IfReturn ==
    /\ pc = "if"
    /\ idx = Len(ifs)
    /\ pc' = "ifdone"
    /\ UNCHANGED <<macros, search_paths, text, contents, ifs, idx, err, run, prev,
                   macros0, modules, given, built>>

\* parse: the macros are replaced in every line, and the lines returned
Substitute ==
    /\ pc = "ifdone"
    /\ LET r == SubstituteAll(contents, macros)
       IN  IF \E i \in 1..Len(r) : r[i].err # "none"
           THEN Fail("TypeError") /\ UNCHANGED contents
           ELSE /\ contents' = [i \in 1..Len(r) |-> r[i].line]
                /\ pc' = "done"
                /\ UNCHANGED err
    /\ UNCHANGED <<macros, search_paths, text, ifs, idx, run, prev, macros0, modules, given, built>>

\* parse is called again, on the lines it returned, when these hold no directive
ParseAgain ==
    /\ pc = "done"
    /\ run = 1
    /\ \A i \in 1..Len(contents) : ~IsDirective(contents[i])
    /\ run' = 2
    /\ prev' = contents
    /\ IncludePass(contents)

---------------------------------------------------------------------------
(* The preprocessor, built with a macro list and the search paths p1, p2   *)

Init ==
    /\ macros \in {MacrosFromList(ml, <<>>) : ml \in MacroLists}
    /\ macros0 = macros
    /\ search_paths \in Orders({"p1", "p2"})
    /\ text \in Inputs(MaxLines)
    /\ contents = <<>>
    /\ ifs = <<>>
    /\ idx = 0
    /\ pc = "cfg"
    /\ err = "none"
    /\ run = 1
    /\ prev = <<>>
    /\ modules = <<>>
    /\ given = <<"p1", "p2">>
    /\ NothingBuilt

Next ==
    \/ ParseInclude
    \/ ParseDefine
    \/ ScanIfs
    \/ IfStep
    \/ IfReturn
    \/ Substitute
    \/ ParseAgain

Spec == Init /\ [][Next]_vars

---------------------------------------------------------------------------
(* _parse_if_directives called on its own, on texts whose blocks are       *)
(* balanced and hold at most one #else each                                *)

MaxIfLines == 5      \* the longest text given to _parse_if_directives

IfdefB  == <<"#ifdef", " ", "B">>
DefineB == <<"#define", " ", "B">>

Digits == <<"1", "2", "3", "4", "5", "6", "7", "8", "9">>

\* every text line of t is given its line number, so that no two are alike
Numbered(t) == [i \in 1..Len(t) |-> IF t[i] = <<"x">> THEN <<"x", Digits[i]>> ELSE t[i]]

IsIfLine(line)     == Head(line) \in IfToks
IsElseLine(line)   == Head(line) = "#else"
IsEndifLine(line)  == Head(line) = "#endif"
IsDefineLine(line) == Head(line) = "#define"

\* open holds, for each open block, whether its #else was met
RECURSIVE BalancedFrom(_, _, _)
BalancedFrom(t, i, open) ==
    IF i > Len(t) THEN open = <<>>
    ELSE IF IsIfLine(t[i]) THEN BalancedFrom(t, i + 1, Append(open, FALSE))
    ELSE IF IsElseLine(t[i])
         THEN /\ open # <<>>
              /\ ~open[Len(open)]
              /\ BalancedFrom(t, i + 1, [open EXCEPT ![Len(open)] = TRUE])
    ELSE IF IsEndifLine(t[i])
         THEN open # <<>> /\ BalancedFrom(t, i + 1, SubSeq(open, 1, Len(open) - 1))
    ELSE BalancedFrom(t, i + 1, open)

Balanced(t) == BalancedFrom(t, 1, <<>>)

IfLines == {IfdefA, IfndefA, IfdefB, Else, Endif, DefineA, DefineB, <<"x">>}

\* the balanced texts of n lines at most
IfInputs(n) == {Numbered(t) : t \in {u \in SeqsUpTo(IfLines, n) : Balanced(u)}}

IfMacroLists ==
    {<<>>, << <<"A", "=", "1">> >>, << <<"B", "=", "1">> >>,
     << <<"A", "=", "1">>, <<"B", "=", "1">> >>}

InitIf ==
    /\ macros \in {MacrosFromList(ml, <<>>) : ml \in IfMacroLists}
    /\ macros0 = macros
    /\ search_paths = <<>>
    /\ text \in IfInputs(MaxIfLines)
    /\ contents = text
    /\ ifs = <<>>
    /\ idx = 0
    /\ pc = "def"
    /\ err = "none"
    /\ run = 1
    /\ prev = <<>>
    /\ modules = <<>>
    /\ given = <<>>
    /\ NothingBuilt

NextIf == ScanIfs \/ IfStep \/ IfReturn

SpecIf == InitIf /\ [][NextIf]_vars

---------------------------------------------------------------------------
(* What resolving the blocks of a balanced text means: the lines outside   *)
(* every block and the lines of the selected branches, the blocks taken up *)
(* in the order of their first lines, the #define lines of a selected      *)
(* branch registered when the branch is selected.                          *)

\* the number of blocks open after the lines lo..hi of t
RECURSIVE Nesting(_, _, _)
Nesting(t, lo, hi) ==
    IF lo > hi THEN 0
    ELSE Nesting(t, lo, hi - 1)
         + (IF IsIfLine(t[hi]) THEN 1 ELSE IF IsEndifLine(t[hi]) THEN -1 ELSE 0)

\* the #endif of the block that line i opens
MatchingEndif(t, i) ==
    CHOOSE j \in (i + 1)..Len(t) :
        /\ Nesting(t, i, j) = 0
        /\ \A k \in i..(j - 1) : Nesting(t, i, k) > 0

\* the #else of the block that line i opens, 0 if it has none
MatchingElse(t, i) ==
    LET S == {j \in (i + 1)..MatchingEndif(t, i) :
                 IsElseLine(t[j]) /\ Nesting(t, i, j) = 1}
    IN  IF S = {} THEN 0 ELSE CHOOSE j \in S : TRUE

\* the macro table after the #define lines of lo..hi that lie in no inner block
RECURSIVE BranchDefines(_, _, _, _, _)
BranchDefines(t, lo, p, hi, m) ==
    IF p > hi THEN m
    ELSE BranchDefines(t, lo, p + 1, hi,
            IF IsDefineLine(t[p]) /\ Nesting(t, lo, p - 1) = 0
            THEN DefineTable(m, DefineString(t[p]))
            ELSE m)

\* the name a block tests is defined in m
Selected(line, m) ==
    LET name == Strip(Tail(line))
    IN  IF Head(line) = "#ifdef" THEN name \in Names(m) ELSE name \notin Names(m)

\* the lines p..hi resolved under m; inBranch: p..hi is a selected branch
RECURSIVE Resolved(_, _, _, _, _)
Resolved(t, p, hi, m, inBranch) ==
    IF p > hi THEN [out |-> <<>>, macros |-> m]
    ELSE IF IsIfLine(t[p])
    THEN LET e  == MatchingEndif(t, p)
             el == MatchingElse(t, p)
             lo2 == IF Selected(t[p], m) THEN p + 1 ELSE IF el = 0 THEN e ELSE el + 1
             hi2 == IF Selected(t[p], m) /\ el # 0 THEN el - 1 ELSE e - 1
             inner == Resolved(t, lo2, hi2, BranchDefines(t, lo2, lo2, hi2, m), TRUE)
             rest  == Resolved(t, e + 1, hi, inner.macros, inBranch)
         IN  [out |-> inner.out \o rest.out, macros |-> rest.macros]
    ELSE IF IsDefineLine(t[p]) /\ inBranch THEN Resolved(t, p + 1, hi, m, inBranch)
    ELSE LET rest == Resolved(t, p + 1, hi, m, inBranch)
         IN  [out |-> <<t[p]>> \o rest.out, macros |-> rest.macros]

SelectedLines(t, m) == Resolved(t, 1, Len(t), m, FALSE).out

\* C1: _parse_if_directives, given a text of balanced blocks, returns the lines
\* that lie outside every block or in the selected branch of every block around
\* them, in their order, and no directive line or #define line of a branch
C1_ReturnsSelectedLines ==
    /\ pc # "error"
    /\ pc = "ifdone" => contents = SelectedLines(text, macros0)

---------------------------------------------------------------------------
(* parse on texts of nested blocks: balanced texts without #else, built    *)
(* from a bounded number of #if, #define and text lines                    *)

MaxNestedLines   == 9      \* the longest such text
MaxNestedIfs     == 3      \* its #ifdef and #ifndef lines
MaxNestedDefines == 2      \* its #define lines
MaxNestedTexts   == 1      \* its text lines

\* the texts of n lines that close depth open blocks
RECURSIVE NestedTexts(_, _, _, _, _)
NestedTexts(n, depth, nif, ndef, ntxt) ==
    IF n = 0 THEN (IF depth = 0 THEN {<<>>} ELSE {})
    ELSE IF depth > n THEN {}
    ELSE UNION {
        IF nif > 0
        THEN {<<l>> \o t : l \in {IfdefA, IfndefA},
                           t \in NestedTexts(n - 1, depth + 1, nif - 1, ndef, ntxt)}
        ELSE {},
        IF depth > 0
        THEN {<<Endif>> \o t : t \in NestedTexts(n - 1, depth - 1, nif, ndef, ntxt)}
        ELSE {},
        IF ndef > 0
        THEN {<<DefineA>> \o t : t \in NestedTexts(n - 1, depth, nif, ndef - 1, ntxt)}
        ELSE {},
        IF ntxt > 0
        THEN {<< <<"x">> >> \o t : t \in NestedTexts(n - 1, depth, nif, ndef, ntxt - 1)}
        ELSE {}}

\* the texts of len lines at most
NestedInputs(len) ==
    {Numbered(t) : t \in UNION {NestedTexts(n, 0, MaxNestedIfs, MaxNestedDefines,
                                            MaxNestedTexts) : n \in 0..len}}

InitNested ==
    /\ macros \in {MacrosFromList(ml, <<>>) : ml \in {<<>>, << <<"A", "=", "1">> >>}}
    /\ macros0 = macros
    /\ search_paths = <<>>
    /\ text \in NestedInputs(MaxNestedLines)
    /\ contents = <<>>
    /\ ifs = <<>>
    /\ idx = 0
    /\ pc = "cfg"
    /\ err = "none"
    /\ run = 1
    /\ prev = <<>>
    /\ modules = <<>>
    /\ given = <<>>
    /\ NothingBuilt

NextNested ==
    \/ ParseInclude
    \/ ParseDefine
    \/ ScanIfs
    \/ IfStep
    \/ IfReturn
    \/ Substitute

SpecNested == InitNested /\ [][NextNested]_vars

\* the text and the macro table that parse hands to _parse_if_directives
Defined(t, paths, m) == ParseDefineDirectives(IncludeLines(t, paths), m)

\* what the blocks of the text resolve to
ResolvedText(t, paths, m) ==
    LET d == Defined(t, paths, m)
    IN  Resolved(d.contents, 1, Len(d.contents), d.macros, FALSE)

IsTextLine(line) == Head(line) = "x"

\* C2: when parse has returned, no text line of a branch that was not taken is
\* among the lines returned, and no macro is in the table whose only #define
\* lines stand in such branches
C2_NotTakenHasNoEffect ==
    (pc = "done" /\ run = 1) =>
        LET r == ResolvedText(text, search_paths, macros0)
        IN  /\ \A i \in 1..Len(contents) :
                   IsTextLine(contents[i]) => contents[i] \in Range(r.out)
            /\ Names(macros) \subseteq Names(r.macros)

---------------------------------------------------------------------------
(* A standard preprocessor: one walk over the lines from top to bottom.    *)
(* open holds, for each open block, whether its lines are live.  A #define *)
(* acts on the lines after it, an #include is replaced by the lines of the *)
(* file, which are walked in turn.                                         *)

Live(open) == \A k \in 1..Len(open) : open[k]

\* the text of a macro value: the integer 1 is written 1
ValueText(v) == IF v.int THEN <<"1">> ELSE v.str

RECURSIVE ExpandLine(_, _, _, _)
ExpandLine(line, m, order, k) ==
    IF k > Len(order) THEN line
    ELSE ExpandLine(Replace(line, order[k], ValueText(Value(m, order[k]))), m, order, k + 1)

RECURSIVE Standard(_, _, _, _)
Standard(lines, paths, open, m) ==
    IF lines = <<>> THEN <<>>
    ELSE LET line == Head(lines)
             rest == Tail(lines)
             name == Strip(Tail(line))
             top  == Len(open)
         IN  IF Head(line) = "#ifdef"
             THEN Standard(rest, paths, Append(open, Live(open) /\ name \in Names(m)), m)
             ELSE IF Head(line) = "#ifndef"
             THEN Standard(rest, paths, Append(open, Live(open) /\ name \notin Names(m)), m)
             ELSE IF Head(line) = "#else"
             THEN Standard(rest, paths,
                     [open EXCEPT ![top] = Live(SubSeq(open, 1, top - 1)) /\ ~open[top]], m)
             ELSE IF Head(line) = "#endif"
             THEN Standard(rest, paths, SubSeq(open, 1, top - 1), m)
             ELSE IF ~Live(open)
             THEN Standard(rest, paths, open, m)
             ELSE IF Head(line) = "#define"
             THEN Standard(rest, paths, open, DefineTable(m, DefineString(line)))
             ELSE IF Head(line) = "#include"
             THEN Standard(IncludeContents(paths, IncludeName(line)) \o rest, paths, open, m)
             ELSE <<ExpandLine(line, m, SortedMacros(m), 1)>> \o Standard(rest, paths, open, m)

\* the text holds the six directives only
SixDirectives(t) ==
    \A i \in 1..Len(t) :
        IsDirective(t[i]) =>
            Head(t[i]) \in {"#include", "#define", "#ifdef", "#ifndef", "#else", "#endif"}

\* C3: on a text that holds no directive but #include, #define, #ifdef, #ifndef,
\* #else and #endif, parse returns the lines a standard preprocessor returns, one
\* in which a #define acts on the conditionals and the text that follow it
C3_SameAsStandardPreprocessor ==
    (pc = "done" /\ run = 1 /\ SixDirectives(text)) =>
        contents = Standard(text, search_paths, <<>>, macros0)

---------------------------------------------------------------------------
(* What parse leaves in its output, and what it refuses                    *)

\* C4: when parse has returned, no line of its output is a directive line, a
\* line whose first non-blank character is '#'
C4_NoDirectiveLeft ==
    pc = "done" => \A i \in 1..Len(contents) : ~IsDirective(contents[i])

IfCount(t)    == Cardinality({i \in 1..Len(t) : IsIfLine(t[i])})
EndifCount(t) == Cardinality({i \in 1..Len(t) : IsEndifLine(t[i])})

\* the text holds as many #if lines as #endif lines
CountsAgree(t) == IfCount(t) = EndifCount(t)

\* an #else or an #endif stands where no block is open
StrayLine(t) ==
    \E i \in 1..Len(t) :
        (IsElseLine(t[i]) \/ IsEndifLine(t[i])) /\ Nesting(t, 1, i - 1) <= 0

\* an #include names a file that is in none of the directories
MissingInclude(t, paths) ==
    \E i \in 1..Len(t) :
        /\ Head(t[i]) = "#include"
        /\ \A k \in 1..Len(paths) : ~IsFile(paths[k], IncludeName(t[i]))

\* C5: parse ends with an error, and returns no lines, when an #include names a
\* file that is in no search path, when the #if lines and the #endif lines of
\* the text differ in number, and when an #else or #endif stands outside every
\* block: the include pass is not left with a missing file, and the scan of the
\* blocks is not left with unequal counts or a stray line
C5_ErrorsAreRaised ==
    /\ pc \in {"inc", "def", "if", "ifdone", "done"} => ~MissingInclude(text, search_paths)
    /\ pc \in {"if", "ifdone", "done"} =>
           LET t == IncludeLines(text, search_paths)
           IN  CountsAgree(t) /\ ~StrayLine(t)

\* parse has raised the error of the counts, on a text that has no other fault
C5_CountsRefused ==
    /\ pc = "error"
    /\ err = "SyntaxError"
    /\ ~MissingInclude(text, search_paths)
    /\ ~CountsAgree(IncludeLines(text, search_paths))
    /\ ~StrayLine(IncludeLines(text, search_paths))

\* C6: parse does not return when the text holds an #elif line
C6_ElifIsRefused ==
    (pc = "done" /\ run = 1) => \A i \in 1..Len(text) : Head(text[i]) # "#elif"

---------------------------------------------------------------------------
(* The search paths: a preprocessor built with no directory, to which the  *)
(* directories are added one by one (the constructor adds those of its     *)
(* list in the same way, add_paths), and which then parses a text          *)

IncludeG == <<"#include", " ", Quote, "g", Quote>>      \* a file in p2 only

MaxIncLines == 2     \* the longest text of include lines

IncInputs == SeqsUpTo({IncludeF, IncludeG, IncludeH, <<"x">>}, MaxIncLines)

InitInc ==
    /\ macros = <<>>
    /\ macros0 = <<>>
    /\ search_paths = <<>>
    /\ text \in IncInputs
    /\ contents = <<>>
    /\ ifs = <<>>
    /\ idx = 0
    /\ pc = "cfg"
    /\ err = "none"
    /\ run = 1
    /\ prev = <<>>
    /\ modules = <<>>
    /\ given = <<>>
    /\ NothingBuilt

AddSomePath == \E p \in Dirs : AddPath(p)

NextInc ==
    \/ AddSomePath
    \/ ParseInclude

SpecInc == InitInc /\ [][NextInc]_vars

\* C7: the lines put in the place of an #include line are those of the file in
\* the earliest directory that holds it, the directories taken in the order in
\* which they were given to the preprocessor
C7_EarliestGivenPathWins ==
    pc = "inc" => contents = IncludeLines(text, given)

---------------------------------------------------------------------------
(* The substitution: macros are defined one by one, by name alone or with  *)
(* a value, and a text of one line is parsed                               *)

MaxMacros == 3       \* the most macros defined
MaxSubLen == 3       \* the longest line

SubDefinitions ==
    {<<"A", "B", "=", "y">>, <<"A", "=", "x">>, <<"A", "A", "=", "z">>, <<"A">>,
     <<"A", "B", "=", "A">>, <<"B", "=">>}

SubInputs == {<<line>> : line \in SeqsUpTo({"A", "B", "x"}, MaxSubLen) \ {<<>>}}

InitSub ==
    /\ macros = <<>>
    /\ macros0 = <<>>
    /\ search_paths = <<>>
    /\ text \in SubInputs
    /\ contents = <<>>
    /\ ifs = <<>>
    /\ idx = 0
    /\ pc = "cfg"
    /\ err = "none"
    /\ run = 1
    /\ prev = <<>>
    /\ modules = <<>>
    /\ given = <<>>
    /\ NothingBuilt

DefineSome ==
    \E d \in SubDefinitions : Len(DefineTable(macros, d)) <= MaxMacros /\ Define(d)

NextSub ==
    \/ DefineSome
    \/ ParseInclude
    \/ ParseDefine
    \/ ScanIfs
    \/ IfReturn
    \/ Substitute

SpecSub == InitSub /\ [][NextSub]_vars

\* what the substitution makes of one line
Substituted(line, m) == SubstituteLine(line, m, SortedMacros(m), 1).line

\* every value is a string that is not empty and shares no character with a name
\* (the integer of a macro defined by name alone is replaced nowhere)
PlainValues(m) ==
    \A i \in 1..Len(m) :
        \/ m[i].value.int
        \/ /\ m[i].value.str # <<>>
           /\ \A j \in 1..Len(m) : Range(m[i].value.str) \cap Range(m[j].name) = {}

\* the occurrence of L at p shares no character with another occurrence of a
\* name that is as long or longer
Apart(line, m, L, p) ==
    \A M \in Names(m) : \A q \in 1..Len(line) :
        (OccursAt(line, M, q) /\ Len(M) >= Len(L) /\ <<M, q>> # <<L, p>>)
            => (q + Len(M) <= p \/ p + Len(L) <= q)

\* the occurrence of L at p in the line is replaced by the value of L, and what
\* stands before it and after it is substituted on its own
ReplacedAt(line, out, m, L, p) ==
    out = Substituted(SubSeq(line, 1, p - 1), m)
          \o ValueText(Value(m, L))
          \o Substituted(SubSeq(line, p + Len(L), Len(line)), m)

\* a shorter name of the table is part of the name L
HasPart(m, L) == \E S \in Names(m) : Len(S) < Len(L) /\ Contains(L, S)

\* C8, as stated: every occurrence in a line of a name that has a shorter name
\* as a part is replaced by its value, the shorter macro applied to no part of
\* it
C8_EveryOccurrenceReplaced ==
    pc = "done" =>
        \A L \in Names(macros0) : \A p \in 1..Len(text[1]) :
            (HasPart(macros0, L) /\ OccursAt(text[1], L, p))
                => ReplacedAt(text[1], contents[1], macros0, L, p)

\* C8, amended: the same of the occurrences that share no character with
\* another occurrence of a name as long or longer, when the values are plain;
\* and a line that holds no name of the table is returned as it is
C8_LongerNameWins ==
    pc = "done" =>
        /\ PlainValues(macros0) =>
               \A L \in Names(macros0) : \A p \in 1..Len(text[1]) :
                   (HasPart(macros0, L) /\ OccursAt(text[1], L, p)
                       /\ Apart(text[1], macros0, L, p))
                       => ReplacedAt(text[1], contents[1], macros0, L, p)
        /\ (\A n \in Names(macros0) : ~Contains(text[1], n)) => contents = text

\* AAB is parsed with AB = y and A = x: y for AB, x for the A before it
C8_LongerNameReplaced ==
    /\ pc = "done"
    /\ text = << <<"A", "A", "B">> >>
    /\ Names(macros0) = {<<"A">>, <<"A", "B">>}
    /\ contents = << <<"x", "y">> >>

---------------------------------------------------------------------------
(* parse run on its own output (ParseAgain), and parse run on a text that  *)
(* holds no directive, which FortranFile hands to get_modules unparsed     *)

DirectiveFree(lines) == \A i \in 1..Len(lines) : ~IsDirective(lines[i])

NoMacroName(lines, m) ==
    \A i \in 1..Len(lines) : \A n \in Names(m) : ~Contains(lines[i], n)

\* C9, as stated: parse, run on the lines it returned, returns these lines
C9_SecondParseIsNoOp ==
    run = 2 => (pc # "error" /\ (pc = "done" => contents = prev))

\* C9, amended: parse returns a text as it is when the text holds no directive
\* and no name of the macro table; so it does with the lines it returned
\* itself (run = 2), and with a file that FortranFile does not preprocess
C9_PlainTextIsKept ==
    (DirectiveFree(text) /\ NoMacroName(text, macros0)) =>
        (pc # "error" /\ (pc = "done" => contents = text))

\* parse has run again on the lines it returned with A defined, and kept them
C9_SecondParseKept ==
    /\ run = 2
    /\ pc = "done"
    /\ Names(macros0) = {<<"A">>}
    /\ prev # <<>>
    /\ NoMacroName(prev, macros0)
    /\ contents = prev

---------------------------------------------------------------------------
(* FortranFile.get_modules on the lines of a file                          *)

MaxModLines == 3     \* the longest file

ModLines ==
    {<<"module", " ", "a">>, <<"program", " ", "b">>, <<"module", " ", "procedure", " ", "a">>,
     <<"end", " ", "module", " ", "a">>, <<"end", " ", "program">>, <<"x">>}

ModInputs == SeqsUpTo(ModLines, MaxModLines)

\* self.get_modules(contents)
GetModules ==
    /\ pc = "cfg"
    /\ IF UnmatchedUnits(text)
       THEN Fail("ValueError") /\ UNCHANGED modules
       ELSE modules' = GetModulesResult(text) /\ pc' = "mods" /\ UNCHANGED err
    /\ UNCHANGED <<macros, search_paths, text, contents, ifs, idx, run, prev, macros0,
                   given, built>>

InitMod ==
    /\ macros = <<>>
    /\ macros0 = <<>>
    /\ search_paths = <<>>
    /\ text \in ModInputs
    /\ contents = <<>>
    /\ ifs = <<>>
    /\ idx = 0
    /\ pc = "cfg"
    /\ err = "none"
    /\ run = 1
    /\ prev = <<>>
    /\ modules = <<>>
    /\ given = <<>>
    /\ NothingBuilt

NextMod == GetModules

SpecMod == InitMod /\ [][NextMod]_vars

\* C10: get_modules returns only for a file that has as many opening lines as
\* closing lines, whatever the two numbers are, and the unit it builds from the
\* Nth opening line ends at the Nth closing line
C10_PairsOrRefuses ==
    pc = "mods" =>
        /\ Len(Starts(text)) = Len(Ends(text))
        /\ \A n \in 1..Len(modules) :
               \E k \in 1..Len(Starts(text)) :
                   /\ k <= Len(Ends(text))
                   /\ modules[n].start = Starts(text)[k]
                   /\ modules[n].end = Ends(text)[k]

---------------------------------------------------------------------------
(* FortranModule, built from a unit type, a name and the lines of a unit   *)

MaxUnitLines == 3     \* the longest unit

UseA     == <<"use", " ", "a">>
UseUpperA == <<"USE", " ", "A">>
UseB     == <<"use", " ", "b", ",", " ", "only", ":", " ", "x">>
UseIntrinsic == <<"use", ",", " ", "intrinsic", " ", "::", " ", "a", "b">>
UseNothing == <<"use", "x">>

UnitLines == {UseA, UseUpperA, UseB, UseIntrinsic, UseNothing, <<"x">>}

UnitInputs(n) == SeqsUpTo(UnitLines, n)

\* the unit types and the names given to the constructor
UnitTypes == {<<"module">>, <<"MODULE", " ">>}
UnitNames == {<<"a">>, <<" ", "A", "b">>}

\* core.py: FortranModule(unit_type, name, source=text)
CoreModule ==
    /\ pc = "cfg"
    /\ \E t \in UnitTypes, n \in UnitNames, u \in CoreGetUses(text) :
           fmodule' = [impl |-> "core", unit_type |-> Lower(Strip(t)), name |-> Lower(Strip(n)),
                    uses |-> u, found |-> TRUE]
    /\ pc' = "unit"
    /\ UNCHANGED <<macros, search_paths, text, contents, ifs, idx, err, run, prev, macros0,
                   modules, given, uses, project, walk, output>>

\* units.py: FortranModule(unit_type, name, source_file=None); uses is None
UnitsModule ==
    /\ pc = "cfg"
    /\ \E t \in UnitTypes, n \in UnitNames :
           fmodule' = [impl |-> "units", unit_type |-> Lower(Strip(t)), name |-> Lower(Strip(n)),
                    uses |-> <<>>, found |-> FALSE]
    /\ pc' = "new"
    /\ UNCHANGED <<macros, search_paths, text, contents, ifs, idx, err, run, prev, macros0,
                   modules, given, uses, project, walk, output>>

\* units.py: fmodule.uses = fmodule.get_uses(contents), with _defined_at = 0 and _end = None
UnitsUses ==
    /\ pc = "new"
    /\ \E u \in UnitsGetUses(text, 0, Len(text)) :
           fmodule' = [fmodule EXCEPT !.uses = u, !.found = TRUE]
    /\ pc' = "unit"
    /\ UNCHANGED <<macros, search_paths, text, contents, ifs, idx, err, run, prev, macros0,
                   modules, given, uses, project, walk, output>>

InitUnit ==
    /\ macros = <<>>
    /\ macros0 = <<>>
    /\ search_paths = <<>>
    /\ text \in UnitInputs(MaxUnitLines)
    /\ contents = <<>>
    /\ ifs = <<>>
    /\ idx = 0
    /\ pc = "cfg"
    /\ err = "none"
    /\ run = 1
    /\ prev = <<>>
    /\ modules = <<>>
    /\ given = <<>>
    /\ NothingBuilt

NextUnit ==
    \/ CoreModule
    \/ UnitsModule
    \/ UnitsUses

SpecUnit == InitUnit /\ [][NextUnit]_vars

\* the names the use lines of a text name, whatever their letter case
NamedModules(lines) == {Lower(Strip(n)) : n \in Range(UsedNames(lines))}

NoDuplicate(s) == \A i, j \in 1..Len(s) : i # j => s[i] # s[j]

\* C11: in core.py and in units.py a unit's type and name are stored
\* lower-cased, and get_uses returns every used module name lower-cased and
\* once, two use lines that differ in letter case only giving one entry
C11_UnitIsLowerCased ==
    pc = "unit" =>
        /\ fmodule.unit_type = Lower(fmodule.unit_type)
        /\ fmodule.name = Lower(fmodule.name)
        /\ \A i \in 1..Len(fmodule.uses) : fmodule.uses[i] = Lower(fmodule.uses[i])
        /\ NoDuplicate(fmodule.uses)
        /\ Range(fmodule.uses) = NamedModules(text)
        /\ Len(fmodule.uses) = Cardinality(NamedModules(text))

---------------------------------------------------------------------------
(* core.py: FortranFile, built from the lines of a file                    *)

MaxFileUnits == 2     \* the units of a file, at most
MaxFileUses == 2      \* the use lines of a unit, at most

FileUseLines == {UseA, UseUpperA, UseB}

\* the texts of one unit: the opening line, the use lines, the closing line
UnitTexts(n) ==
    {<<h[1]>> \o body \o <<h[2]>> :
        h \in {<< <<"module", " ", "a">>, <<"end", " ", "module", " ", "a">> >>,
               << <<"program", " ", "b">>, <<"end", " ", "program", " ", "b">> >>},
        body \in SeqsUpTo(FileUseLines, n)}

RECURSIVE Flatten(_)
Flatten(ss) == IF ss = <<>> THEN <<>> ELSE Head(ss) \o Flatten(Tail(ss))

\* the files of k units at most
FileInputs(k, n) == {Flatten(us) : us \in SeqsUpTo(UnitTexts(n), k)}

\* FortranFile.get_uses: the uses of the units, one unit after the other in
\* the order of self.modules; list(set(uses)).sort() sorts a copy that is
\* dropped, uses is returned as it was filled
RECURSIVE FileGetUses(_)
FileGetUses(mods) ==
    IF mods = <<>> THEN {<<>>}
    ELSE {u \o rest : u \in CoreGetUses(Head(mods).source), rest \in FileGetUses(Tail(mods))}

\* FortranFile(filename): self.modules = self.get_modules(contents) and
\* self.uses = self.get_uses()
FortranFileInit ==
    /\ pc = "cfg"
    /\ IF UnmatchedUnits(text)
       THEN Fail("ValueError") /\ UNCHANGED <<modules, uses>>
       ELSE /\ modules' = GetModulesResult(text)
            /\ uses' \in FileGetUses(GetModulesResult(text))
            /\ pc' = "file"
            /\ UNCHANGED err
    /\ UNCHANGED <<macros, search_paths, text, contents, ifs, idx, run, prev, macros0,
                   given, fmodule, project, walk, output>>

InitFile ==
    /\ macros = <<>>
    /\ macros0 = <<>>
    /\ search_paths = <<>>
    /\ text \in FileInputs(MaxFileUnits, MaxFileUses)
    /\ contents = <<>>
    /\ ifs = <<>>
    /\ idx = 0
    /\ pc = "cfg"
    /\ err = "none"
    /\ run = 1
    /\ prev = <<>>
    /\ modules = <<>>
    /\ given = <<>>
    /\ NothingBuilt

NextFile == FortranFileInit

SpecFile == InitFile /\ [][NextFile]_vars

\* the names used by the units of a file
UsedByUnits(mods) == UNION {NamedModules(mods[k].source) : k \in 1..Len(mods)}

\* C12: the uses of a constructed FortranFile are the union of the uses of
\* its units without duplicates: a name used by two units appears once
C12_FileUsesAreUnique ==
    pc = "file" =>
        /\ Range(uses) = UsedByUnits(modules)
        /\ NoDuplicate(uses)

---------------------------------------------------------------------------
(* dependencies.py: FortranProject.  A module name and a file name are one *)
(* string each.  A dict is the sequence of its items in insertion order.   *)

MaxUnits == 3        \* the units of a project, at most
MaxUses == 2         \* the use lines of a project, at most

default_ignored_modules == {"iso_c_binding", "iso_fortran_env"}

\* the name of the unit that stands at a place of the project; "p" is a program
UnitNameAt == <<"a", "b", "p", "c", "d">>

\* the names a use line may hold: "z" is defined nowhere
UsedUniverse == {"a", "b", "p", "z", "iso_c_binding"}

FileNames == {"A.f90", "a.f90", "b.f90"}

\* filename.lower()
LowerPath(f) == IF f = "A.f90" THEN "a.f90" ELSE f

\* the place of a file name in the order of str
PathRank(f) == CASE f = "A.f90" -> 1 [] f = "a.f90" -> 2 [] OTHER -> 3

\* sorted(s, key=...): a stable sort; key is the function of the keys
RECURSIVE InsertSorted(_, _, _)
InsertSorted(sorted, x, key) ==
    IF sorted = <<>> THEN <<x>>
    ELSE IF key[x] < key[sorted[Len(sorted)]]
         THEN Append(InsertSorted(SubSeq(sorted, 1, Len(sorted) - 1), x, key),
                     sorted[Len(sorted)])
         ELSE Append(sorted, x)

RECURSIVE SortedBy(_, _)
SortedBy(s, key) ==
    IF s = <<>> THEN <<>>
    ELSE InsertSorted(SortedBy(SubSeq(s, 1, Len(s) - 1), key), s[Len(s)], key)

\* the lists module.uses may be: list(set(uses)), n names of U at most
UsesLists(U, n) == UNION {Orders(S) : S \in {T \in SUBSET U : Cardinality(T) <= n}}

\* the uses of the units at the places 1..n, with budget use lines at most
RECURSIVE UnitUses(_, _, _)
UnitUses(U, n, budget) ==
    IF n = 0 THEN {<<>>}
    ELSE UNION {{Append(rest, u) : u \in UsesLists(U, budget - Len(Flatten(rest)))} :
                    rest \in UnitUses(U, n - 1, budget)}

\* FortranFile objects: filename, the names of the units of the file in the
\* order of file.modules, and file.uses (FortranFile.get_uses)
FileObject(f, place, u) ==
    LET mine == Ascending({i \in DOMAIN place : place[i] = f})
    IN  [filename |-> f,
         modules |-> [k \in DOMAIN mine |->
                         [name |-> UnitNameAt[mine[k]],
                          unit_type |-> IF UnitNameAt[mine[k]] = "p" THEN "program" ELSE "module",
                          uses |-> u[mine[k]],
                          source_file |-> f]],
         uses |-> Flatten([k \in DOMAIN mine |-> u[mine[k]]])]

\* the ignore_modules given to the constructor
IgnoreLists == {<<>>, <<"a">>, <<"p">>}

\* dict.update for one item: a key that is there keeps its place
Update(dict, item) ==
    IF \E n \in 1..Len(dict) : dict[n].name = item.name
    THEN [n \in 1..Len(dict) |-> IF dict[n].name = item.name THEN item ELSE dict[n]]
    ELSE Append(dict, item)

RECURSIVE UpdateAll(_, _)
UpdateAll(dict, items) ==
    IF items = <<>> THEN dict ELSE UpdateAll(Update(dict, Head(items)), Tail(items))

\* FortranProject.get_modules: modules.update(source_file.modules), file by file
RECURSIVE ProjectModules(_, _)
ProjectModules(files, dict) ==
    IF files = <<>> THEN dict
    ELSE ProjectModules(Tail(files), UpdateAll(dict, Head(files).modules))

\* the keys of a dict
Keys(dict) == {dict[n].name : n \in 1..Len(dict)}

\* dict[key]
Item(dict, key) == dict[CHOOSE n \in 1..Len(dict) : dict[n].name = key]

\* the sub-sequence of the elements of s that satisfy keep (a set)
RECURSIVE Filter(_, _)
Filter(s, keep) ==
    IF s = <<>> THEN <<>>
    ELSE (IF Head(s) \in keep THEN <<Head(s)>> ELSE <<>>) \o Filter(Tail(s), keep)

\* list.remove(x): the first x is taken out
RECURSIVE Remove(_, _)
Remove(s, x) ==
    IF s = <<>> THEN <<>>
    ELSE IF Head(s) = x THEN Tail(s) ELSE <<Head(s)>> \o Remove(Tail(s), x)

\* a round that takes the name out of the uses and leaves it in the registry
UsesOnlyRemoved(p, ignore_mod) ==
    [p EXCEPT
        !.modules = [n \in 1..Len(@) |->
                        [@[n] EXCEPT !.uses = IF ignore_mod \in Range(@)
                                              THEN Remove(@, ignore_mod) ELSE @]],
        !.files = [n \in 1..Len(@) |->
                      [@[n] EXCEPT !.uses = IF ignore_mod \in Range(@)
                                            THEN Remove(@, ignore_mod) ELSE @]]]

\* one round of the loop of remove_ignored_modules.  A unit of the registry
\* is the object that its file holds in file.modules, so its uses change there too
RemoveIgnored(p, ignore_mod) ==
    LET left == Filter(p.modules, {m \in Range(p.modules) : m.name # ignore_mod})
        Shorter(m) == IF ignore_mod \in Range(m.uses)
                      THEN [m EXCEPT !.uses = Remove(@, ignore_mod)]
                      ELSE m
        Shared(m) == m.name \in Keys(left) /\ Item(left, m.name).source_file = m.source_file
    IN  [p EXCEPT
            !.modules = [n \in 1..Len(left) |-> Shorter(left[n])],
            !.files = [n \in 1..Len(p.files) |->
                          [p.files[n] EXCEPT
                              !.uses = IF ignore_mod \in Range(@) THEN Remove(@, ignore_mod) ELSE @,
                              !.modules = [k \in 1..Len(@) |->
                                              IF Shared(@[k]) THEN Shorter(@[k]) ELSE @[k]]]]]

RECURSIVE RemoveIgnoredAll(_, _)
RemoveIgnoredAll(p, ignore_modules) ==
    IF ignore_modules = <<>> THEN p
    ELSE RemoveIgnoredAll(RemoveIgnored(p, Head(ignore_modules)), Tail(ignore_modules))

\* the dict sorted by the number of the dependencies (a stable sort)
ByLength(depends) ==
    LET place == SortedBy([n \in 1..Len(depends) |-> n],
                          [n \in 1..Len(depends) |-> Len(depends[n].deps)])
    IN  [k \in 1..Len(depends) |-> depends[place[k]]]

\* the registered units among the uses of a unit, in the order of the uses
ModuleGraphUnsorted(p, module) == Filter(module.uses, Keys(p.modules))

\* get_depends_by_module: the registered units among the uses of a unit,
\* sorted by the name of their files
ModuleGraph(p, module) ==
    SortedBy(Filter(module.uses, Keys(p.modules)),
             [n \in Keys(p.modules) |-> PathRank(Item(p.modules, n).source_file)])

DependsByModule(p) ==
    ByLength([n \in 1..Len(p.modules) |->
                 [name |-> p.modules[n].name, deps |-> ModuleGraph(p, p.modules[n])]])

\* a KeyError was caught in get_depends_by_module
UnresolvedInModules(p) ==
    \E n \in 1..Len(p.modules) : ~(Range(p.modules[n].uses) \subseteq Keys(p.modules))

\* get_depends_by_file: the files of the registered units among the uses of
\* a file, but for the files whose lower-cased name is that of the file
RECURSIVE FileGraph(_, _, _)
FileGraph(p, source_file, uses_left) ==
    IF uses_left = <<>> THEN <<>>
    ELSE LET mod == Head(uses_left)
         IN  (IF mod \in Keys(p.modules)
                 /\ LowerPath(Item(p.modules, mod).source_file) # LowerPath(source_file.filename)
              THEN <<Item(p.modules, mod).source_file>>
              ELSE <<>>) \o FileGraph(p, source_file, Tail(uses_left))

DependsByFile(p) ==
    ByLength([n \in 1..Len(p.files) |->
                 [name |-> p.files[n].filename,
                  deps |-> SortedBy(FileGraph(p, p.files[n], p.files[n].uses),
                                    [f \in FileNames |-> PathRank(f)])]])

\* a KeyError was caught in get_depends_by_file
UnresolvedInFiles(p) ==
    \E n \in 1..Len(p.files) : ~(Range(p.files[n].uses) \subseteq Keys(p.modules))

\* exec_names is None: {k: "x" + k} for every program
DefaultExecNames(programs) ==
    [k \in 1..Len(programs) |-> [name |-> programs[k].name, exec |-> <<"x", programs[k].name>>]]

\* __init__: self.modules = self.get_modules(), self.programs and
\* self.exec_names; exec_names of another length than programs is a ValueError
IndexModules ==
    /\ pc = "cfg"
    /\ LET mods == ProjectModules(project.files, <<>>)
           programs == Filter(mods, {m \in Range(mods) : m.unit_type = "program"})
           indexed == [project EXCEPT !.modules = mods, !.programs = programs]
       IN  IF ~project.exec_given
           THEN /\ project' = [indexed EXCEPT !.exec_names = DefaultExecNames(programs)]
                /\ pc' = "indexed"
                /\ err' = err
           ELSE IF Len(project.exec_names) # Len(programs)
           THEN /\ project' = indexed
                /\ pc' = "error"
                /\ err' = "ValueError"
           ELSE /\ project' = indexed
                /\ pc' = "indexed"
                /\ err' = err
    /\ UNCHANGED <<macros, search_paths, text, contents, ifs, idx, run, prev, macros0,
                   modules, given, fmodule, uses, walk, output>>

\* __init__: self.remove_ignored_modules(ignore_modules)
ApplyIgnores ==
    /\ pc = "indexed"
    /\ \E given_list \in IgnoreLists :
         \E ignore_modules \in Orders(Range(given_list) \cup default_ignored_modules) :
           project' = [RemoveIgnoredAll(project, ignore_modules) EXCEPT
                          !.ignore_modules = given_list]
    /\ pc' = "ignored"
    /\ UNCHANGED <<macros, search_paths, text, contents, ifs, idx, err, run, prev, macros0,
                   modules, given, fmodule, uses, walk, output>>

\* __init__: self.depends_by_module = self.get_depends_by_module(verbose)
DirectByModule ==
    /\ pc = "ignored"
    /\ project' = [project EXCEPT
           !.depends_by_module = DependsByModule(project),
           !.success = IF UnresolvedInModules(project) THEN FALSE ELSE @]
    /\ pc' = "direct"
    /\ UNCHANGED <<macros, search_paths, text, contents, ifs, idx, err, run, prev, macros0,
                   modules, given, fmodule, uses, walk, output>>

\* __init__: self.depends_by_file = self.get_depends_by_file(verbose)
DirectByFile ==
    /\ pc = "direct"
    /\ project' = [project EXCEPT
           !.depends_by_file = DependsByFile(project),
           !.success = IF UnresolvedInFiles(project) THEN FALSE ELSE @]
    /\ pc' = "ready"
    /\ UNCHANGED <<macros, search_paths, text, contents, ifs, idx, err, run, prev, macros0,
                   modules, given, fmodule, uses, walk, output>>

InitProject ==
    /\ macros = <<>>
    /\ macros0 = <<>>
    /\ search_paths = <<>>
    /\ text = <<>>
    /\ contents = <<>>
    /\ ifs = <<>>
    /\ idx = 0
    /\ pc = "cfg"
    /\ err = "none"
    /\ run = 1
    /\ prev = <<>>
    /\ modules = <<>>
    /\ given = <<>>
    /\ fmodule = [impl |-> "none", unit_type |-> <<>>, name |-> <<>>, uses |-> <<>>,
                  found |-> FALSE]
    /\ uses = <<>>
    /\ \E n \in 1..MaxUnits :
         \E place \in [1..n -> FileNames], u \in UnitUses(UsedUniverse, n, MaxUses) :
           \E order \in Orders(Range(place)) :
             project = [files |-> [k \in DOMAIN order |-> FileObject(order[k], place, u)],
                        modules |-> <<>>, programs |-> <<>>, success |-> TRUE,
                        ignore_modules |-> <<>>,
                        depends_by_module |-> <<>>, depends_by_file |-> <<>>,
                  exec_given |-> FALSE, exec_names |-> <<>>]
    /\ walk = NoCall
    /\ output = <<>>

NextProject ==
    \/ IndexModules
    \/ ApplyIgnores
    \/ DirectByModule
    \/ DirectByFile

SpecProject == InitProject /\ [][NextProject]_vars

\* the names that the project was told to ignore
Ignored == Range(project.ignore_modules) \cup default_ignored_modules

\* every uses list of the project: of the registered units and of the files
UsesOf(p) ==
    {p.modules[n].uses : n \in 1..Len(p.modules)} \cup {p.files[n].uses : n \in 1..Len(p.files)}

\* no ignored name is registered or used, and none has made an error
IgnoredGone ==
    /\ pc \in {"ignored", "direct", "ready"} =>
           /\ Keys(project.modules) \cap Ignored = {}
           /\ \A u \in UsesOf(project) : Range(u) \cap Ignored = {}
    /\ pc \in {"direct", "ready"} =>
           \A n \in 1..Len(project.depends_by_module) :
               Range(project.depends_by_module[n].deps) \cap Ignored = {}
    /\ (pc = "ready" /\ ~project.success) =>
           \E u \in UsesOf(project) : ~(Range(u) \subseteq (Keys(project.modules) \cup Ignored))

\* the entries of the other names are as they were, file by file and unit by unit
OthersKept ==
    LET others == UsedUniverse \ (Range(project'.ignore_modules) \cup default_ignored_modules)
    IN  /\ \A n \in 1..Len(project.files) :
               Filter(project'.files[n].uses, others) = Filter(project.files[n].uses, others)
        /\ \A m \in Range(project'.modules) :
               Filter(m.uses, others) = Filter(Item(project.modules, m.name).uses, others)

\* C13: after construction no ignored name, given or default, is a key of the
\* registry or an entry of the uses of a unit or of a file, whatever the number
\* of units of a file, so it makes no edge and no unresolved-module error;
\* the entries of the names that are not ignored are left as they were
C13_IgnoredNamesAreGone ==
    /\ []IgnoredGone
    /\ [][pc = "indexed" => OthersKept]_vars

\* the file that defines a registered unit
DefiningFile(name) == Item(project.modules, name).source_file

\* the uses of a unit that name no registered unit
Unresolved(module) == Range(module.uses) \ Keys(project.modules)

\* depends_by_module[u] for every registered u: the registered units of u's
\* uses, each once, in the order of the paths of their files
DirectDependencies ==
    /\ Keys(project.depends_by_module) = Keys(project.modules)
    /\ \A u \in Range(project.modules) :
           LET deps == Item(project.depends_by_module, u.name).deps
           IN  /\ Range(deps) = Range(u.uses) \cap Keys(project.modules)
               /\ NoDuplicate(deps)
               /\ \A i, j \in 1..Len(deps) :
                      i < j => PathRank(DefiningFile(deps[i])) <= PathRank(DefiningFile(deps[j]))
               /\ Unresolved(u) # {} => ~project.success

\* C14: depends_by_module[u] holds the registered units named in u's uses and
\* no other, ordered by the path of the defining file; a use that names no
\* registered unit is left out and makes success false without ending the
\* construction; success, once false, is not set back to true
C14_DirectDependencies ==
    /\ [](pc \in {"direct", "ready"} => DirectDependencies)
    /\ [](pc # "error" /\ err = "none")
    /\ [][~project.success => ~project'.success]_vars

\* a project is ready whose unit uses a registered unit and a name that is
\* defined nowhere: the list holds the first only and success is false
C14_UnresolvedLeftOut ==
    /\ pc = "ready"
    /\ ~project.success
    /\ \E u \in Range(project.modules) :
           /\ Unresolved(u) # {}
           /\ Len(Item(project.depends_by_module, u.name).deps) = 1
           /\ Len(u.uses) = 2

\* C15: depends_by_file[f] never holds f, and it holds the defining file of
\* every module of f's uses that is a registered unit of another file; two
\* files are the same file only when their paths are identical
C15_FileDependencies ==
    pc = "ready" =>
        \A f \in Range(project.files) :
            LET deps == Item(project.depends_by_file, f.filename).deps
            IN  /\ f.filename \notin Range(deps)
                /\ \A m \in Range(f.uses) \cap Keys(project.modules) :
                       DefiningFile(m) # f.filename => DefiningFile(m) \in Range(deps)

---------------------------------------------------------------------------
(* dependencies.py: the closure of the uses, get_all_used_modules,         *)
(* get_all_used_files and write                                            *)

\* the module names in the order of str
NameOrder == <<"a", "b", "c", "d", "iso_c_binding", "iso_fortran_env", "p", "z">>

\* sorted(list(set(state)))
SortedNames(state) == Filter(NameOrder, Range(state))

\* _get_all_used_modules(module_name, state), from the i-th use of the unit
\* on: st holds the list state, which the callers share, and self.success
RECURSIVE UsedFrom(_, _, _, _)
UsedFrom(p, module_name, i, st) ==
    LET unit_uses == Item(p.modules, module_name).uses
    IN  IF i > Len(unit_uses) THEN st
        ELSE LET module == unit_uses[i]
                 seen == [st EXCEPT !.state = Append(@, module)]
             IN  IF module \in Range(st.state) THEN UsedFrom(p, module_name, i + 1, st)
                 ELSE IF module \notin Keys(p.modules)
                      THEN UsedFrom(p, module_name, i + 1, [seen EXCEPT !.success = FALSE])
                 ELSE IF Len(Item(p.modules, module).uses) # 0
                      THEN LET inner == UsedFrom(p, module, 1, seen)
                           IN  UsedFrom(p, module_name, i + 1,
                                   [inner EXCEPT !.state = @ \o SortedNames(@)])
                 ELSE UsedFrom(p, module_name, i + 1, seen)

\* self._get_all_used_modules(module_name, state=[]): the list returned, the
\* success flag after the call, and the KeyError of a name that is no key
AllUsedModules(p, module_name) ==
    IF module_name \notin Keys(p.modules)
    THEN [err |-> "KeyError", value |-> <<>>, success |-> p.success]
    ELSE LET st == UsedFrom(p, module_name, 1, [state |-> <<>>, success |-> p.success])
         IN  [err |-> "none", value |-> SortedNames(st.state), success |-> st.success]

\* the files of the registered units that a unit uses itself, and no further
DirectUsedFiles(p, module_name) ==
    IF module_name \notin Keys(p.modules)
    THEN [err |-> "KeyError", value |-> <<>>, success |-> p.success]
    ELSE LET direct == Filter(Item(p.modules, module_name).uses, Keys(p.modules))
         IN  [err |-> "none",
              value |-> [k \in 1..Len(direct) |-> Item(p.modules, direct[k]).source_file],
              success |-> p.success]

\* get_all_used_files: the files of the modules of the closure; self.modules[module]
\* raises KeyError for a name of the closure that is no key
AllUsedFiles(p, module_name) ==
    LET used == AllUsedModules(p, module_name)
    IN  IF used.err # "none" THEN used
        ELSE IF ~(Range(used.value) \subseteq Keys(p.modules))
             THEN [err |-> "KeyError", value |-> <<>>, success |-> used.success]
        ELSE [err |-> "none",
              value |-> [k \in 1..Len(used.value) |-> Item(p.modules, used.value[k]).source_file],
              success |-> used.success]

\* os.path.splitext(f)[0]
Stem(f) == CASE f = "A.f90" -> "A" [] f = "a.f90" -> "a" [] OTHER -> "b"

\* the file name with the extension ".o"
ObjectOf(f) == <<Stem(f), ".o">>

\* udep_list of _format_dependencies: the first of equal entries is kept
RECURSIVE Unique(_)
Unique(s) ==
    IF s = <<>> THEN <<>>
    ELSE LET front == Unique(SubSeq(s, 1, Len(s) - 1))
         IN  IF s[Len(s)] \in Range(front) THEN front ELSE Append(front, s[Len(s)])

\* _format_dependencies(target, ".o", dep_list, build=None, program): the rule
\* "name : dependencies [target]"
FormatDependencies(target, dep_list, program) ==
    [name |-> IF program THEN target ELSE ObjectOf(target),
     deps |-> [k \in 1..Len(Unique(dep_list)) |-> ObjectOf(Unique(dep_list)[k])],
     source |-> IF program THEN <<>> ELSE <<target>>]

HEADER == [name |-> "#", deps |-> <<>>, source |-> <<>>]

\* write: the rules of the files, in the order of the keys of depends_by_file
FileRules(p) ==
    [n \in 1..Len(p.depends_by_file) |->
        FormatDependencies(p.depends_by_file[n].name, p.depends_by_file[n].deps, FALSE)]

\* write: the rules of the programs from the k-th key of self.programs on; an
\* outcome holds the lines written, self.success and the error that ended the loop
RECURSIVE ProgramRules(_, _, _)
ProgramRules(p, k, st) ==
    IF k > Len(p.programs) THEN {st}
    ELSE LET program == p.programs[k].name
             used == AllUsedFiles([p EXCEPT !.success = st.success], program)
         IN  IF used.err # "none"
             THEN {[st EXCEPT !.err = used.err, !.success = used.success]}
             ELSE IF program \notin Keys(p.exec_names)
             THEN {[st EXCEPT !.err = "KeyError", !.success = used.success]}
             ELSE UNION {ProgramRules(p, k + 1,
                             [st EXCEPT
                                 !.lines = Append(@, FormatDependencies(
                                               Item(p.exec_names, program).exec,
                                               Append(x, p.programs[k].source_file), TRUE)),
                                 !.success = used.success]) :
                         x \in Orders(Range(used.value))}

\* project.write(output, overwrite, build=None, skip_programs); walk keeps
\* the arguments of the call
Write ==
    /\ pc \in {"ready", "written"}
    /\ \E overwrite \in BOOLEAN, skip_programs \in BOOLEAN :
         IF output # <<>> /\ ~overwrite
         THEN /\ project' = [project EXCEPT !.success = FALSE]
              /\ pc' = "written"
              /\ walk' = [call |-> "write", name |-> "", err |-> "none", value |-> <<>>,
                          overwrite |-> overwrite, skip_programs |-> skip_programs]
              /\ UNCHANGED <<output, err>>
         ELSE LET start == [lines |-> <<HEADER>> \o FileRules(project),
                            success |-> project.success, err |-> "none"]
              IN  \E st \in (IF skip_programs THEN {start} ELSE ProgramRules(project, 1, start)) :
                      /\ output' = st.lines
                      /\ project' = [project EXCEPT !.success = st.success]
                      /\ err' = st.err
                      /\ pc' = IF st.err = "none" THEN "written" ELSE "error"
                      /\ walk' = [call |-> "write", name |-> "", err |-> st.err,
                                  value |-> <<>>, overwrite |-> overwrite,
                                  skip_programs |-> skip_programs]
    /\ UNCHANGED <<macros, search_paths, text, contents, ifs, idx, run, prev, macros0,
                   modules, given, fmodule, uses>>

MaxGraphUnits == 4   \* the units of a use graph, at most
MaxGraphUses == 4    \* the edges of a use graph, at most

\* the names a use line of a graph may hold: "z" is defined nowhere
GraphUniverse == {"a", "b", "c", "z"}

\* the files of the units of a graph: each unit in a file of its own, or the
\* first two in one file
Layouts(n) ==
    {[i \in 1..n |-> IF i = 1 THEN "a.f90" ELSE IF i = 2 THEN "A.f90" ELSE "b.f90"],
     [i \in 1..n |-> IF i <= 2 THEN "a.f90" ELSE "b.f90"]}

\* FortranProject(files): the project as the constructor leaves it, with no
\* ignore_modules given
Constructed(files) ==
    LET mods == ProjectModules(files, <<>>)
        raw == [files |-> files, modules |-> mods,
                programs |-> Filter(mods, {m \in Range(mods) : m.unit_type = "program"}),
                success |-> TRUE, ignore_modules |-> <<>>,
                depends_by_module |-> <<>>, depends_by_file |-> <<>>,
                exec_given |-> FALSE,
                exec_names |-> DefaultExecNames(
                    Filter(mods, {m \in Range(mods) : m.unit_type = "program"}))]
        ignored == RemoveIgnoredAll(raw,
                       CHOOSE q \in Orders(default_ignored_modules) : TRUE)
        by_module == [ignored EXCEPT
                         !.depends_by_module = DependsByModule(ignored),
                         !.success = IF UnresolvedInModules(ignored) THEN FALSE ELSE @]
    IN  [by_module EXCEPT
            !.depends_by_file = DependsByFile(by_module),
            !.success = IF UnresolvedInFiles(by_module) THEN FALSE ELSE @]

\* project.get_all_used_modules(module_name): x = list(set(x))
GetAllUsedModules ==
    /\ pc = "ready"
    /\ \E module_name \in Keys(project.modules) \cup {"z"} :
         LET r == AllUsedModules(project, module_name)
         IN  /\ \E x \in Orders(Range(r.value)) :
                   walk' = [call |-> "get_all_used_modules", name |-> module_name,
                            err |-> r.err, value |-> x]
             /\ project' = [project EXCEPT !.success = r.success]
             /\ pc' = IF r.err = "none" THEN "returned" ELSE "error"
             /\ err' = r.err
    /\ UNCHANGED <<macros, search_paths, text, contents, ifs, idx, run, prev, macros0,
                   modules, given, fmodule, uses, output>>

\* project.get_all_used_files(module_name): x = list(set(used_files))
GetAllUsedFiles ==
    /\ pc = "ready"
    /\ \E module_name \in Keys(project.modules) \cup {"z"} :
         LET r == AllUsedFiles(project, module_name)
         IN  /\ \E x \in Orders(Range(r.value)) :
                   walk' = [call |-> "get_all_used_files", name |-> module_name,
                            err |-> r.err, value |-> x]
             /\ project' = [project EXCEPT !.success = r.success]
             /\ pc' = IF r.err = "none" THEN "returned" ELSE "error"
             /\ err' = r.err
    /\ UNCHANGED <<macros, search_paths, text, contents, ifs, idx, run, prev, macros0,
                   modules, given, fmodule, uses, output>>

InitGraph ==
    /\ macros = <<>>
    /\ macros0 = <<>>
    /\ search_paths = <<>>
    /\ text = <<>>
    /\ contents = <<>>
    /\ ifs = <<>>
    /\ idx = 0
    /\ pc = "ready"
    /\ err = "none"
    /\ run = 1
    /\ prev = <<>>
    /\ modules = <<>>
    /\ given = <<>>
    /\ fmodule = [impl |-> "none", unit_type |-> <<>>, name |-> <<>>, uses |-> <<>>,
                  found |-> FALSE]
    /\ uses = <<>>
    /\ \E n \in 1..MaxGraphUnits :
         \E place \in Layouts(n), u \in UnitUses(GraphUniverse, n, MaxGraphUses) :
           LET order == SortedBy(CHOOSE q \in Orders(Range(place)) : TRUE,
                                 [f \in FileNames |-> PathRank(f)])
           IN  project = Constructed([k \in DOMAIN order |-> FileObject(order[k], place, u)])
    /\ walk = NoCall
    /\ output = <<>>

NextGraph ==
    \/ GetAllUsedModules
    \/ GetAllUsedFiles
    \/ Write

SpecGraph == InitGraph /\ [][NextGraph]_vars

\* C16: the closure that get_all_used_modules(u) returns for a registered
\* unit u does not hold u, whatever the use graph: cycles and units that use
\* themselves included
C16_ClosureExcludesUnit ==
    (pc = "returned" /\ walk.call = "get_all_used_modules") =>
        walk.name \notin Range(walk.value)

\* C17: for a registered unit u and any member m of get_all_used_modules(u),
\* get_all_used_modules(m) returns a subset of get_all_used_modules(u)
C17_ClosureIsFixedPoint ==
    (pc = "returned" /\ walk.call = "get_all_used_modules") =>
        \A m \in Range(walk.value) :
            LET of_m == AllUsedModules(project, m)
            IN  of_m.err = "none" /\ Range(of_m.value) \subseteq Range(walk.value)

\* the names that the registered units of S use
UsedBy(S) ==
    UNION {Range(Item(project.modules, n).uses) : n \in S \cap Keys(project.modules)}

\* the least set that holds S and the names used by its units
RECURSIVE Closed(_)
Closed(S) == IF UsedBy(S) \subseteq S THEN S ELSE Closed(S \cup UsedBy(S))

\* the names reached from a unit over one use edge or more
Reachable(name) == Closed(UsedBy({name}))

\* the files that define the registered units of a set of names
FilesOf(S) == {DefiningFile(n) : n \in S \cap Keys(project.modules)}

\* a program of the project reaches a name that no file defines
ReachesUndefined(name) ==
    /\ name \in Keys(project.programs)
    /\ name \in Keys(project.modules)
    /\ ~(Reachable(name) \subseteq Keys(project.modules))

\* C19: when the transitive uses of a program hold a name that no file
\* defines, the walk makes success false and goes on, and get_all_used_files
\* and write with the program rules return normally with what did resolve:
\* the name that is not defined never ends a call
C19_UndefinedNameIsSkipped ==
    /\ (walk.call = "get_all_used_files" /\ ReachesUndefined(walk.name)) =>
           /\ pc = "returned"
           /\ ~project.success
           /\ Range(walk.value) = FilesOf(Reachable(walk.name))
    /\ (walk.call = "write" /\ \E n \in Keys(project.programs) : ReachesUndefined(n)) =>
           pc # "error"

---------------------------------------------------------------------------
(* _get_all_used_modules, call by call: walk.frames holds one frame for    *)
(* each call that has not returned, the innermost last, with the name of   *)
(* its unit and the place i of its loop; walk.state is the list they share *)

MaxWalkUnits == 3    \* the units of a walked graph, at most
MaxWalkUses == 3     \* the edges of a walked graph, at most

\* self._get_all_used_modules(module_name, state=[])
WalkCall ==
    /\ pc = "ready"
    /\ \E module_name \in Keys(project.modules) \cup {"z"} :
         IF module_name \notin Keys(project.modules)
         THEN /\ Fail("KeyError")
              /\ walk' = [walk EXCEPT !.call = "_get_all_used_modules", !.name = module_name,
                                      !.err = "KeyError"]
         ELSE /\ walk' = [call |-> "_get_all_used_modules", name |-> module_name,
                          err |-> "none", value |-> <<>>,
                          frames |-> <<[module_name |-> module_name, i |-> 1]>>,
                          state |-> <<>>]
              /\ pc' = "walk"
              /\ UNCHANGED err
    /\ UNCHANGED <<macros, search_paths, text, contents, ifs, idx, run, prev, macros0,
                   modules, given, fmodule, uses, project, output>>

\* one round of the loop "for module in self.modules[module_name].uses" of
\* the innermost call
WalkVisit ==
    /\ pc = "walk"
    /\ LET depth == Len(walk.frames)
           frame == walk.frames[depth]
           unit_uses == Item(project.modules, frame.module_name).uses
           next == [walk EXCEPT !.frames[depth].i = @ + 1]
       IN  /\ frame.i <= Len(unit_uses)
           /\ LET module == unit_uses[frame.i]
              IN  IF module \in Range(walk.state)
                  THEN walk' = next /\ UNCHANGED project
                  ELSE IF module \notin Keys(project.modules)
                       THEN /\ walk' = [next EXCEPT !.state = Append(@, module)]
                            /\ project' = [project EXCEPT !.success = FALSE]
                  ELSE IF Len(Item(project.modules, module).uses) # 0
                       THEN /\ walk' = [walk EXCEPT
                                   !.state = Append(@, module),
                                   !.frames = Append(@, [module_name |-> module, i |-> 1])]
                            /\ UNCHANGED project
                  ELSE walk' = [next EXCEPT !.state = Append(@, module)] /\ UNCHANGED project
    /\ UNCHANGED <<macros, search_paths, text, contents, ifs, idx, pc, err, run, prev, macros0,
                   modules, given, fmodule, uses, output>>

\* return sorted(list(set(state))): to the caller, which extends state by the
\* list and goes on with its loop, or out of the walk
WalkReturn ==
    /\ pc = "walk"
    /\ LET depth == Len(walk.frames)
           frame == walk.frames[depth]
       IN  /\ frame.i > Len(Item(project.modules, frame.module_name).uses)
           /\ IF depth = 1
              THEN /\ walk' = [walk EXCEPT !.frames = <<>>, !.value = SortedNames(walk.state)]
                   /\ pc' = "returned"
              ELSE /\ walk' = [walk EXCEPT
                          !.frames = [SubSeq(@, 1, depth - 1) EXCEPT ![depth - 1].i = @ + 1],
                          !.state = @ \o SortedNames(@)]
                   /\ UNCHANGED pc
    /\ UNCHANGED <<macros, search_paths, text, contents, ifs, idx, err, run, prev, macros0,
                   modules, given, fmodule, uses, project, output>>

InitWalk ==
    /\ macros = <<>>
    /\ macros0 = <<>>
    /\ search_paths = <<>>
    /\ text = <<>>
    /\ contents = <<>>
    /\ ifs = <<>>
    /\ idx = 0
    /\ pc = "ready"
    /\ err = "none"
    /\ run = 1
    /\ prev = <<>>
    /\ modules = <<>>
    /\ given = <<>>
    /\ fmodule = [impl |-> "none", unit_type |-> <<>>, name |-> <<>>, uses |-> <<>>,
                  found |-> FALSE]
    /\ uses = <<>>
    /\ \E n \in 1..MaxWalkUnits :
         \E u \in UnitUses(GraphUniverse, n, MaxWalkUses) :
           LET place == [i \in 1..n |-> IF i <= 2 THEN "a.f90" ELSE "b.f90"]
               order == SortedBy(CHOOSE q \in Orders(Range(place)) : TRUE,
                                 [f \in FileNames |-> PathRank(f)])
           IN  project = Constructed([k \in DOMAIN order |-> FileObject(order[k], place, u)])
    /\ walk = [call |-> "none", name |-> "", err |-> "none", value |-> <<>>,
               frames |-> <<>>, state |-> <<>>]
    /\ output = <<>>

NextWalk ==
    \/ WalkCall
    \/ WalkVisit
    \/ WalkReturn

\* a call that has begun runs on: the interpreter takes the next step
SpecWalk == InitWalk /\ [][NextWalk]_vars /\ WF_vars(WalkVisit \/ WalkReturn)

\* the module names of the project: the units and the names they use
ModuleNames == Keys(project.modules) \cup UsedBy(Keys(project.modules))

\* no more calls are open than there are module names
DepthBounded == pc = "walk" => Len(walk.frames) <= Cardinality(ModuleNames)

\* a call is made for a name that the list state does not hold yet
DescendsIntoNew ==
    (pc = "walk" /\ pc' = "walk" /\ Len(walk'.frames) > Len(walk.frames)) =>
        walk'.frames[Len(walk'.frames)].module_name \notin Range(walk.state)

\* C18: the walk ends for every finite use graph, cycles and self-uses
\* included: no call is made for a name that the visited list holds, so the
\* depth of the recursion is bounded by the number of distinct module names
C18_WalkTerminates ==
    /\ (pc = "walk" ~> pc = "returned")
    /\ [][DescendsIntoNew]_vars
    /\ []DepthBounded

---------------------------------------------------------------------------
(* dependencies.py: _format_dependencies with a build directory.  A path   *)
(* is the record of its directory ("" for none), its base name without the *)
(* extension, and its extension.                                           *)

MaxDeps == 3         \* the longest dep_list given to _format_dependencies

Path(d, s, e) == [dir |-> d, stem |-> s, ext |-> e]

\* the files a dependency list may name: two that differ in the letter case
\* of the extension, two of one base name in two directories
DepPaths ==
    {Path("", "a", ".f90"), Path("", "a", ".F90"), Path("src", "a", ".f90"),
     Path("lib", "a", ".f90"), Path("", "b", ".f90")}

NoBuild == "None"    \* build=None

\* os.path.join(build, os.path.split(x)[1])
InBuild(build, x) == [x EXCEPT !.dir = build]

\* os.path.splitext(i)[0] + target_ext
WithExt(x, target_ext) == [x EXCEPT !.ext = target_ext]

\* _format_dependencies(target, target_ext, dep_list, build, program): the
\* rule "name : dependencies [target]"
FormatRule(target, target_ext, dep_list, build, program) ==
    LET name == IF program THEN target
                ELSE IF build # NoBuild THEN InBuild(build, WithExt(target, target_ext))
                ELSE WithExt(target, target_ext)
        udep_list == Unique(dep_list)
        moved == [k \in 1..Len(udep_list) |->
                     IF build # NoBuild THEN InBuild(build, udep_list[k]) ELSE udep_list[k]]
    IN  [name |-> name,
         deps |-> [k \in 1..Len(moved) |-> WithExt(moved[k], target_ext)],
         source |-> IF program THEN <<>> ELSE <<target>>]

\* self._format_dependencies(...) is called on the arguments held in walk
FormatDependenciesCall ==
    /\ pc = "cfg"
    /\ walk.call = "_format_dependencies"
    /\ output' = <<FormatRule(walk.name, ".o", walk.value, walk.build, walk.program)>>
    /\ pc' = "formatted"
    /\ UNCHANGED <<macros, search_paths, text, contents, ifs, idx, err, run, prev, macros0,
                   modules, given, fmodule, uses, project, walk>>

InitRule ==
    /\ macros = <<>>
    /\ macros0 = <<>>
    /\ search_paths = <<>>
    /\ text = <<>>
    /\ contents = <<>>
    /\ ifs = <<>>
    /\ idx = 0
    /\ pc = "cfg"
    /\ err = "none"
    /\ run = 1
    /\ prev = <<>>
    /\ modules = <<>>
    /\ given = <<>>
    /\ fmodule = [impl |-> "none", unit_type |-> <<>>, name |-> <<>>, uses |-> <<>>,
                  found |-> FALSE]
    /\ uses = <<>>
    /\ project = [files |-> <<>>, modules |-> <<>>, programs |-> <<>>, success |-> TRUE,
                  ignore_modules |-> <<>>,
                  depends_by_module |-> <<>>, depends_by_file |-> <<>>,
                  exec_given |-> FALSE, exec_names |-> <<>>]
    /\ \E program \in BOOLEAN, build \in {NoBuild, "odir"}, dep_list \in SeqsUpTo(DepPaths, MaxDeps) :
         \E target \in (IF program THEN {Path("", "xp", "")}
                                   ELSE {Path("", "a", ".f90"), Path("src", "a", ".f90")}) :
           walk = [call |-> "_format_dependencies", name |-> target, err |-> "none",
                   value |-> dep_list, build |-> build, program |-> program]
    /\ output = <<>>

NextRule == FormatDependenciesCall

SpecRule == InitRule /\ [][NextRule]_vars

\* the object path that a rule names for a dependency file
ObjectPath(x, build) ==
    [dir |-> IF build = NoBuild THEN x.dir ELSE build, stem |-> x.stem, ext |-> ".o"]

\* C21: a rule of _format_dependencies lists each dependency object path at
\* most once, in the order in which the object paths first occur in the
\* dependency list given, with and without a build directory
C21_ObjectPathsOnce ==
    pc = "formatted" =>
        LET objects == [k \in 1..Len(walk.value) |-> ObjectPath(walk.value[k], walk.build)]
        IN  /\ NoDuplicate(output[1].deps)
            /\ output[1].deps = Unique(objects)

---------------------------------------------------------------------------
(* write and the output that is there                                      *)

\* the output holds a rule for every file and, unless the programs are
\* skipped, a rule for every program
RulesWritten(p, lines, skip_programs) ==
    /\ lines # <<>>
    /\ lines[1] = HEADER
    /\ \A n \in 1..Len(p.files) :
           \E k \in 2..Len(lines) : lines[k].source = <<p.files[n].filename>>
    /\ ~skip_programs =>
           \A n \in 1..Len(p.programs) :
               \E k \in 2..Len(lines) : lines[k].name = <<"x", p.programs[n].name>>

\* write has met an output that exists, with overwrite=False
Refused ==
    /\ pc' = "written"
    /\ err' = "none"
    /\ output' = output
    /\ project'.depends_by_module = project.depends_by_module
    /\ project'.depends_by_file = project.depends_by_file
    /\ ~project'.success

\* C22: write on an output that exists, with overwrite=False, returns without
\* an error, leaves the output and the dependency maps as they are and makes
\* success false; with overwrite=True, or when there is no output yet, write
\* returns with the rules written
C22_WriteKeepsExistingOutput ==
    [][walk'.call = "write" =>
          IF output # <<>> /\ ~walk'.overwrite
          THEN Refused
          ELSE /\ pc' = "written"
               /\ RulesWritten(project, output', walk'.skip_programs)]_vars

\* the first half of C22 alone
C22_ExistingOutputKept ==
    [][(walk'.call = "write" /\ output # <<>> /\ ~walk'.overwrite) => Refused]_vars

\* the second half of C22, for the projects whose programs reach no name that
\* no file defines
C22_RulesWrittenWhenResolved ==
    [][(walk'.call = "write" /\ ~(output # <<>> /\ ~walk'.overwrite)
          /\ \A n \in Keys(project.programs) : ~ReachesUndefined(n)) =>
             /\ pc' = "written"
             /\ RulesWritten(project, output', walk'.skip_programs)]_vars

---------------------------------------------------------------------------
(* FortranFile(filename, macros, pp_search_path) for the files of a        *)
(* project, the constructions interleaved pass by pass.  Here text,        *)
(* contents, pc, err, modules and uses hold one entry per file; macros is  *)
(* the list of the macro tables of the FortranPreprocessor objects made so *)
(* far, idx[f] the place of the table of the preprocessor of file f (0     *)
(* before it is made), and given the macro list handed to every file.      *)

NFiles == 2          \* the files parsed side by side

\* the whole of _parse_if_directives from block i (0-based) on
RECURSIVE IfLoop(_, _, _, _)
IfLoop(parsed_text, blocks, i, m) ==
    IF i >= Len(blocks) THEN [err |-> "none", text |-> parsed_text, macros |-> m]
    ELSE LET Pass(r) ==
                 IF r.err # "none" THEN [err |-> r.err, text |-> parsed_text, macros |-> r.macros]
                 ELSE IfLoop(r.text, r.ifs, i + 1, r.macros)
         IN  Pass(ResolveBlock(parsed_text, blocks, i, m))

ParseIfDirectives(txt, m) ==
    LET st == FindIfs(txt)
    IN  IF st.err # "none" THEN [err |-> st.err, text |-> txt, macros |-> m]
        ELSE IfLoop(txt, st.ifs, 0, m)

\* the table of every file is that of the preprocessor that was made first
FirstTable(refs, f) ==
    CHOOSE t \in {refs[g] : g \in DOMAIN refs} \ {0} :
        \A g \in DOMAIN refs : refs[g] # 0 => t <= refs[g]

\* self.macros of the preprocessor of file f: core.py makes one
\* FortranPreprocessor for each file, whose __init__ binds a new dict
TableOf(refs, f) == refs[f]

\* the first lines of FortranFile.__init__: the file is read, and
\* has_directives tells whether a line starts with '#'
ReadFile(f) ==
    /\ pc[f] = "new"
    /\ contents' = [contents EXCEPT ![f] = text[f]]
    /\ pc' = [pc EXCEPT ![f] = IF \E i \in 1..Len(text[f]) : IsDirective(text[f][i])
                               THEN "read" ELSE "parsed"]
    /\ UNCHANGED <<macros, search_paths, text, ifs, idx, err, run, prev, macros0,
                   modules, given, built>>

\* preprocessor = FortranPreprocessor(macros=macros, search_paths=pp_search_path)
NewPreprocessor(f) ==
    /\ pc[f] = "read"
    /\ macros' = Append(macros, MacrosFromList(given, <<>>))
    /\ idx' = [idx EXCEPT ![f] = Len(macros) + 1]
    /\ pc' = [pc EXCEPT ![f] = "cfg"]
    /\ UNCHANGED <<search_paths, text, contents, ifs, err, run, prev, macros0,
                   modules, given, built>>

\* preprocessor.parse(contents), pass by pass
PassInclude(f) ==
    /\ pc[f] = "cfg"
    /\ IF IncludeFails(contents[f], search_paths)
       THEN /\ pc' = [pc EXCEPT ![f] = "error"]
            /\ err' = [err EXCEPT ![f] = "ValueError"]
            /\ UNCHANGED contents
       ELSE /\ contents' = [contents EXCEPT ![f] = IncludeLines(@, search_paths)]
            /\ pc' = [pc EXCEPT ![f] = "inc"]
            /\ UNCHANGED err
    /\ UNCHANGED <<macros, search_paths, text, ifs, idx, run, prev, macros0,
                   modules, given, built>>

PassDefine(f) ==
    /\ pc[f] = "inc"
    /\ LET t == TableOf(idx, f)
           d == ParseDefineDirectives(contents[f], macros[t])
       IN  /\ macros' = [macros EXCEPT ![t] = d.macros]
           /\ IF d.err # "none"
              THEN /\ pc' = [pc EXCEPT ![f] = "error"]
                   /\ err' = [err EXCEPT ![f] = d.err]
                   /\ UNCHANGED contents
              ELSE /\ contents' = [contents EXCEPT ![f] = d.contents]
                   /\ pc' = [pc EXCEPT ![f] = "def"]
                   /\ UNCHANGED err
    /\ UNCHANGED <<search_paths, text, ifs, idx, run, prev, macros0, modules, given, built>>

PassIf(f) ==
    /\ pc[f] = "def"
    /\ \E t \in {TableOf(idx, f)} : \E r \in {ParseIfDirectives(contents[f], macros[t])} :
           /\ macros' = [macros EXCEPT ![t] = r.macros]
           /\ IF r.err # "none"
              THEN /\ pc' = [pc EXCEPT ![f] = "error"]
                   /\ err' = [err EXCEPT ![f] = r.err]
                   /\ UNCHANGED contents
              ELSE /\ contents' = [contents EXCEPT ![f] = r.text]
                   /\ pc' = [pc EXCEPT ![f] = "ifdone"]
                   /\ UNCHANGED err
    /\ UNCHANGED <<search_paths, text, ifs, idx, run, prev, macros0, modules, given, built>>

PassSubstitute(f) ==
    /\ pc[f] = "ifdone"
    /\ LET r == SubstituteAll(contents[f], macros[TableOf(idx, f)])
       IN  IF \E i \in 1..Len(r) : r[i].err # "none"
           THEN /\ pc' = [pc EXCEPT ![f] = "error"]
                /\ err' = [err EXCEPT ![f] = "TypeError"]
                /\ UNCHANGED contents
           ELSE /\ contents' = [contents EXCEPT ![f] = [i \in 1..Len(r) |-> r[i].line]]
                /\ pc' = [pc EXCEPT ![f] = "parsed"]
                /\ UNCHANGED err
    /\ UNCHANGED <<macros, search_paths, text, ifs, idx, run, prev, macros0,
                   modules, given, built>>

\* self.modules = self.get_modules(contents) and self.uses = self.get_uses()
ScanUnits(f) ==
    /\ pc[f] = "parsed"
    /\ IF UnmatchedUnits(contents[f])
       THEN /\ pc' = [pc EXCEPT ![f] = "error"]
            /\ err' = [err EXCEPT ![f] = "ValueError"]
            /\ UNCHANGED <<modules, uses>>
       ELSE /\ modules' = [modules EXCEPT ![f] = GetModulesResult(contents[f])]
            /\ \E u \in FileGetUses(GetModulesResult(contents[f])) :
                   uses' = [uses EXCEPT ![f] = u]
            /\ pc' = [pc EXCEPT ![f] = "file"]
            /\ UNCHANGED err
    /\ UNCHANGED <<macros, search_paths, text, contents, ifs, idx, run, prev, macros0,
                   given, fmodule, project, walk, output>>

ModuleA == << <<"module", " ", "a">>, <<"use", " ", "b">>, <<"end", " ", "module", " ", "a">> >>

\* the texts of a file: a unit, bare or in a block, after lines that define
\* macros or not
ParTexts ==
    {head \o body :
        head \in {<<>>, <<DefineA>>, <<IfdefA, DefineB, Endif>>, <<IncludeF>>},
        body \in {ModuleA,
                  <<IfdefA>> \o ModuleA \o <<Endif>>,
                  <<IfndefA>> \o ModuleA \o <<Endif>>,
                  <<IfdefB>> \o ModuleA \o <<Endif>>}}

InitPar ==
    /\ macros = <<>>
    /\ macros0 = <<>>
    /\ search_paths = <<"p1">>
    /\ text \in [1..NFiles -> ParTexts]
    /\ contents = [f \in 1..NFiles |-> <<>>]
    /\ ifs = <<>>
    /\ idx = [f \in 1..NFiles |-> 0]
    /\ pc = [f \in 1..NFiles |-> "new"]
    /\ err = [f \in 1..NFiles |-> "none"]
    /\ run = 1
    /\ prev = <<>>
    /\ modules = [f \in 1..NFiles |-> <<>>]
    /\ given \in {<<>>, << <<"A", "=", "1">> >>}
    /\ fmodule = [impl |-> "none", unit_type |-> <<>>, name |-> <<>>, uses |-> <<>>,
                  found |-> FALSE]
    /\ uses = [f \in 1..NFiles |-> <<>>]
    /\ project = [files |-> <<>>, modules |-> <<>>, programs |-> <<>>, success |-> TRUE,
                  ignore_modules |-> <<>>,
                  depends_by_module |-> <<>>, depends_by_file |-> <<>>,
                  exec_given |-> FALSE, exec_names |-> <<>>]
    /\ walk = NoCall
    /\ output = <<>>

NextPar ==
    \E f \in 1..NFiles :
        \/ ReadFile(f)
        \/ NewPreprocessor(f)
        \/ PassInclude(f)
        \/ PassDefine(f)
        \/ PassIf(f)
        \/ PassSubstitute(f)
        \/ ScanUnits(f)

SpecPar == InitPar /\ [][NextPar]_vars

\* parse(txt) of a preprocessor built with the macro list and the paths, when
\* no other file is parsed: the error, or the lines returned
ParsedAlone(txt, list, paths) ==
    IF IncludeFails(txt, paths) THEN [err |-> "ValueError", lines |-> <<>>]
    ELSE LET d == ParseDefineDirectives(IncludeLines(txt, paths), MacrosFromList(list, <<>>))
             r == ParseIfDirectives(d.contents, d.macros)
             s == SubstituteAll(r.text, r.macros)
         IN  IF d.err # "none" THEN [err |-> d.err, lines |-> <<>>]
             ELSE IF r.err # "none" THEN [err |-> r.err, lines |-> <<>>]
             ELSE IF \E i \in 1..Len(s) : s[i].err # "none"
                  THEN [err |-> "TypeError", lines |-> <<>>]
             ELSE [err |-> "none", lines |-> [i \in 1..Len(s) |-> s[i].line]]

\* the lines that get_modules is given for a file parsed alone
LinesAlone(txt, list, paths) ==
    IF \E i \in 1..Len(txt) : IsDirective(txt[i]) THEN ParsedAlone(txt, list, paths)
    ELSE [err |-> "none", lines |-> txt]

\* C23: the units and the uses found for a file are those found when the
\* file is parsed alone with the macro list and the search paths given, in
\* whatever order the passes over the files are interleaved: a #define of one
\* file is never seen by the passes over another
C23_FilesParsedApart ==
    \A f \in 1..NFiles :
        LET alone == LinesAlone(text[f], given, search_paths)
        IN  /\ pc[f] = "error" =>
                   \/ alone.err = err[f]
                   \/ alone.err = "none" /\ UnmatchedUnits(alone.lines)
            /\ pc[f] = "file" =>
                   /\ alone.err = "none"
                   /\ ~UnmatchedUnits(alone.lines)
                   /\ modules[f] = GetModulesResult(alone.lines)
                   /\ uses[f] \in FileGetUses(GetModulesResult(alone.lines))

\* two files whose blocks test the same macro, one of which defines it, have
\* been parsed, the passes interleaved: the file that does not define the
\* macro has finished after the other registered its #define
C23_DefineNotSeenByOtherFile ==
    /\ pc = [f \in 1..NFiles |-> "file"]
    /\ Len(macros) = 2
    /\ \E f, g \in 1..NFiles :
           /\ <<"A">> \in Names(macros[idx[f]])
           /\ <<"A">> \notin Names(macros[idx[g]])
           /\ idx[f] > idx[g]
           /\ IfdefA \in Range(text[g])
           /\ modules[f] # <<>>
           /\ modules[g] = <<>>

---------------------------------------------------------------------------
(* The index lists of _parse_if_directives while the blocks are resolved   *)

\* the block that the next pass of the loop takes up, if it is pending
Pending == pc = "if" /\ idx < Len(ifs) /\ Len(ifs[idx + 1]) >= 2

\* in the lines t, the 0-based index first is that of an #ifdef or #ifndef
\* line and last that of the #endif that closes it
OpensAndCloses(t, first, last) ==
    /\ first + 1 \in 1..Len(t)
    /\ last + 1 \in (first + 2)..Len(t)
    /\ IsIfLine(t[first + 1])
    /\ Nesting(t, first + 1, last + 1) = 0
    /\ \A k \in (first + 1)..last : Nesting(t, first + 1, k) > 0

\* the lines of the #ifdef and #ifndef lines of t, from the top
IfPlaces(t) == Ascending({i \in 1..Len(t) : IsIfLine(t[i])})

\* the #if lines of p..hi that stand outside every block or in the selected
\* branch of every block around them, the #define lines of their selected
\* branches, and the macro table after these blocks
RECURSIVE TakenUp(_, _, _, _)
TakenUp(t, p, hi, m) ==
    IF p > hi THEN [places |-> {}, defines |-> {}, macros |-> m]
    ELSE IF IsIfLine(t[p])
    THEN LET e  == MatchingEndif(t, p)
             el == MatchingElse(t, p)
             lo2 == IF Selected(t[p], m) THEN p + 1 ELSE IF el = 0 THEN e ELSE el + 1
             hi2 == IF Selected(t[p], m) /\ el # 0 THEN el - 1 ELSE e - 1
             mine == {q \in lo2..hi2 : IsDefineLine(t[q]) /\ Nesting(t, lo2, q - 1) = 0}
             inner == TakenUp(t, lo2, hi2, BranchDefines(t, lo2, lo2, hi2, m))
             rest  == TakenUp(t, e + 1, hi, inner.macros)
         IN  [places |-> {p} \cup inner.places \cup rest.places,
              defines |-> mine \cup inner.defines \cup rest.defines,
              macros |-> rest.macros]
    ELSE TakenUp(t, p + 1, hi, m)

\* a pending block that is taken up stands where its index list says
C24_PendingBlockInPlace ==
    Pending => OpensAndCloses(contents, ifs[idx + 1][1], ifs[idx + 1][Len(ifs[idx + 1])])

\* the blocks whose list was cleared are those of the branches not selected
C24_ClearedWhenNotSelected ==
    pc = "ifdone" =>
        \A j \in 1..Len(ifs) :
            ifs[j] = <<>> <=> IfPlaces(text)[j] \notin TakenUp(text, 1, Len(text), macros0).places

\* C24: whenever _parse_if_directives takes up a block that is pending, the
\* first index stored for it is the place of an #ifdef or #ifndef line and
\* the last index the place of the #endif that closes it, in the lines as
\* they are then, for every text of balanced blocks and every macro table;
\* and a block is cleared exactly when it lies in a branch not selected
C24_IndicesFollowTheText ==
    /\ C24_PendingBlockInPlace
    /\ C24_ClearedWhenNotSelected

---------------------------------------------------------------------------
(* parse on texts whose blocks hold #define lines and whose text line      *)
(* holds the macro name                                                    *)

MaxBranchLines == 7  \* the longest such text

\* the texts of NestedTexts with the text line "A" in place of "x"
BranchInputs(len) ==
    {[i \in DOMAIN t |-> IF t[i] = <<"x">> THEN <<"A">> ELSE t[i]] :
        t \in UNION {NestedTexts(n, 0, 2, 2, 1) : n \in 0..len}}

InitBranch ==
    /\ macros \in {MacrosFromList(ml, <<>>) : ml \in {<<>>, << <<"A", "=", "x">> >>}}
    /\ macros0 = macros
    /\ search_paths = <<>>
    /\ text \in BranchInputs(MaxBranchLines)
    /\ contents = <<>>
    /\ ifs = <<>>
    /\ idx = 0
    /\ pc = "cfg"
    /\ err = "none"
    /\ run = 1
    /\ prev = <<>>
    /\ modules = <<>>
    /\ given = <<>>
    /\ NothingBuilt

NextBranch ==
    \/ ParseInclude
    \/ ParseDefine
    \/ ScanIfs
    \/ IfStep
    \/ IfReturn
    \/ Substitute

SpecBranch == InitBranch /\ [][NextBranch]_vars

\* the #define lines of the selected branches of the text that parse hands
\* to _parse_if_directives
LiveDefines ==
    LET d == Defined(text, search_paths, macros0)
    IN  TakenUp(d.contents, 1, Len(d.contents), d.macros).defines

\* the names that these lines define
LiveNames ==
    LET d == Defined(text, search_paths, macros0)
    IN  {Strip(SplitWord(Strip(After(d.contents[q], {"#define"})))) : q \in LiveDefines}

\* C25: when a #define line stands in the selected branch of a block whose
\* enclosing branches are selected, parse ends without an error wherever in
\* the branch the line stands; the name is in the macro table once the
\* blocks are resolved, the blocks after it are decided with the name
\* defined, the line is not in the output, and the name is replaced in the
\* lines returned
C25_BranchDefineRegistered ==
    LiveDefines # {} =>
        /\ pc # "error"
        /\ pc \in {"ifdone", "done"} =>
               /\ LiveNames \subseteq Names(macros)
               /\ \A i \in 1..Len(contents) : ~IsDefineLine(contents[i])
        /\ pc = "ifdone" => contents = ResolvedText(text, search_paths, macros0).out
        /\ pc = "done" =>
               \A i \in 1..Len(contents) : \A n \in LiveNames : ~Contains(contents[i], n)

\* no #define line of a selected branch stands before a block of that branch
NoDefineBeforeNestedBlock ==
    LET d == Defined(text, search_paths, macros0)
    IN  \A q \in LiveDefines :
            \A k \in (q + 1)..Len(d.contents) :
                IsIfLine(d.contents[k]) => Nesting(d.contents, q, k - 1) < 0

\* C25 for the texts in which the index lists stay right (C24)
C25_WhenIndicesStayRight ==
    NoDefineBeforeNestedBlock => C25_BranchDefineRegistered

---------------------------------------------------------------------------
(* parse on texts with #include lines and with directive lines whose macro *)
(* name holds the letters of "include"                                     *)

MaxExpandLines == 3  \* the longest such text

IncludeD == <<"#include", " ", Quote, "d", Quote>>      \* a file in p3, with directives
DefineInclude == <<"#define", " ", "include">>          \* as in "#define include_guard"
IfdefInclude  == <<"#ifdef", " ", "include">>

ExpandLines ==
    {IncludeF, IncludeG, IncludeD, IncludeH, DefineInclude, IfdefInclude, Endif, <<"x">>}

InitExpand ==
    /\ macros = <<>>
    /\ macros0 = <<>>
    /\ search_paths \in Orders({"p2", "p3"})
    /\ text \in SeqsUpTo(ExpandLines, MaxExpandLines)
    /\ contents = <<>>
    /\ ifs = <<>>
    /\ idx = 0
    /\ pc = "cfg"
    /\ err = "none"
    /\ run = 1
    /\ prev = <<>>
    /\ modules = <<>>
    /\ given = <<"p2", "p3">>
    /\ NothingBuilt

NextExpand ==
    \/ ParseInclude
    \/ ParseDefine
    \/ ScanIfs
    \/ IfStep
    \/ IfReturn
    \/ Substitute

SpecExpand == InitExpand /\ [][NextExpand]_vars

\* the lines of t with every #include line replaced by the lines of its file
RECURSIVE IncludedInPlace(_, _)
IncludedInPlace(t, paths) ==
    IF t = <<>> THEN <<>>
    ELSE (IF Head(Head(t)) = "#include"
          THEN IncludeContents(paths, IncludeName(Head(t)))
          ELSE <<Head(t)>>) \o IncludedInPlace(Tail(t), paths)

\* the include pass has ended in an error
IncludePassFailed == pc = "error" /\ contents = <<>> /\ text # <<>>

\* C26: the include pass puts the lines of the file in the place of every
\* #include line and leaves every other line as it is, a #define or #ifdef
\* line whose macro name holds the letters of "include" as well; the lines
\* put in are not searched for #include lines, and the #define lines and the
\* blocks among them are resolved by the passes that follow
C26_OnlyIncludeLinesExpanded ==
    /\ IncludePassFailed => MissingInclude(text, search_paths)
    /\ pc = "inc" => contents = IncludedInPlace(text, search_paths)
    /\ pc = "done" =>
           \A i \in 1..Len(contents) :
               Head(contents[i]) \notin {"#define", "#ifdef", "#ifndef", "#else", "#endif"}

\* C26 for the texts whose directive lines hold "include" in #include lines only
C26_WhenNoOtherLineHoldsInclude ==
    (\A i \in 1..Len(text) : text[i] \notin {DefineInclude, IfdefInclude}) =>
        C26_OnlyIncludeLinesExpanded

\* ---------------------------------------------------------------------------
\* The constructor with its ignore_modules and exec_names, and the calls that
\* follow it
\* ---------------------------------------------------------------------------

MaxBuildUnits == 3   \* the units of a project that is built and written, at most
MaxBuildUses == 1    \* its use lines, at most

\* the exec_names given to the constructor: None, an empty mapping, a name for
\* the program "p", a name for a program "q" that no file defines
ExecNamesGiven ==
    {[given |-> FALSE, names |-> <<>>],
     [given |-> TRUE, names |-> <<>>],
     [given |-> TRUE, names |-> <<[name |-> "p", exec |-> <<"run">>]>>],
     [given |-> TRUE, names |-> <<[name |-> "q", exec |-> <<"run">>]>>]}

InitBuild ==
    /\ macros = <<>>
    /\ macros0 = <<>>
    /\ search_paths = <<>>
    /\ text = <<>>
    /\ contents = <<>>
    /\ ifs = <<>>
    /\ idx = 0
    /\ pc = "cfg"
    /\ err = "none"
    /\ run = 1
    /\ prev = <<>>
    /\ modules = <<>>
    /\ given = <<>>
    /\ fmodule = [impl |-> "none", unit_type |-> <<>>, name |-> <<>>, uses |-> <<>>,
                  found |-> FALSE]
    /\ uses = <<>>
    /\ \E n \in 1..MaxBuildUnits :
         \E place \in Layouts(n), u \in UnitUses(UsedUniverse, n, MaxBuildUses),
            exec_names \in ExecNamesGiven :
           LET order == SortedBy(CHOOSE q \in Orders(Range(place)) : TRUE,
                                 [f \in FileNames |-> PathRank(f)])
           IN  project = [files |-> [k \in DOMAIN order |-> FileObject(order[k], place, u)],
                          modules |-> <<>>, programs |-> <<>>, success |-> TRUE,
                          ignore_modules |-> <<>>,
                          depends_by_module |-> <<>>, depends_by_file |-> <<>>,
                          exec_given |-> exec_names.given, exec_names |-> exec_names.names]
    /\ walk = NoCall
    /\ output = <<>>

NextBuild ==
    \/ IndexModules
    \/ ApplyIgnores
    \/ DirectByModule
    \/ DirectByFile
    \/ GetAllUsedModules
    \/ GetAllUsedFiles
    \/ Write

SpecBuild == InitBuild /\ [][NextBuild]_vars

\* the constructor has returned: the caller holds the project
HandedOver == pc \in {"ready", "returned", "written"} \/ (pc = "error" /\ walk.call # "none")

\* every program has its unit and its executable name
ProgramsKnown ==
    \A program \in Keys(project.programs) :
        /\ program \in Keys(project.modules)
        /\ program \in Keys(project.exec_names)
        /\ ~project.exec_given => Item(project.exec_names, program).exec = <<"x", program>>

\* C28: once the constructor has returned, whatever ignore list and exec_names
\* it took, every key of programs is a key of the unit registry and of
\* exec_names ("x" + name by default), so that write finds the unit and the
\* executable name of every program
C28_ProgramsHaveUnitAndName == HandedOver => ProgramsKnown

\* the same for the constructions that ignore no program and take no exec_names
C28_WhenNoProgramIgnored ==
    (HandedOver /\ ~project.exec_given
        /\ Keys(project.programs) \cap Range(project.ignore_modules) = {}) => ProgramsKnown

\* write has failed on the program itself: every use of the project names a
\* registered unit
C28_WriteFailsOnItsProgram ==
    /\ pc = "error"
    /\ walk.call = "write"
    /\ err = "KeyError"
    /\ \A u \in UsesOf(project) : Range(u) \subseteq Keys(project.modules)

\* ---------------------------------------------------------------------------
\* The stages of the construction
\* ---------------------------------------------------------------------------

\* the steps of __init__ and of the calls that follow it: Raw, ModulesIndexed,
\* IgnoresApplied, the two maps of DirectDepsComputed, Ready
BuilderSteps ==
    {<<"cfg", "indexed">>, <<"cfg", "error">>, <<"indexed", "ignored">>,
     <<"ignored", "direct">>, <<"direct", "ready">>,
     <<"ready", "returned">>, <<"ready", "written">>, <<"ready", "error">>,
     <<"written", "error">>}

NothingResolved == project.depends_by_module = <<>> /\ project.depends_by_file = <<>>

\* what the project holds at each stage
StageHolds ==
    /\ pc = "cfg" => project.modules = <<>> /\ NothingResolved
    /\ pc = "indexed" => project.modules # <<>> /\ NothingResolved
    /\ pc = "ignored" => Keys(project.modules) \cap Ignored = {} /\ NothingResolved
    /\ (pc = "direct" \/ HandedOver) =>
           /\ Keys(project.modules) \cap Ignored = {}
           /\ Keys(project.depends_by_module) = Keys(project.modules)
           /\ \A n \in 1..Len(project.depends_by_module) :
                  Range(project.depends_by_module[n].deps) \cap Ignored = {}
    /\ pc = "direct" => project.depends_by_file = <<>>
    /\ HandedOver =>
           Keys(project.depends_by_file) = {project.files[n].filename : n \in 1..Len(project.files)}

\* what the constructor has built is left as it is
BuiltKept ==
    /\ project'.files = project.files
    /\ project'.modules = project.modules
    /\ project'.programs = project.programs
    /\ project'.depends_by_module = project.depends_by_module
    /\ project'.depends_by_file = project.depends_by_file

\* a step that walks the closure of a unit: get_all_used_modules,
\* get_all_used_files, or a write that is not refused and makes the rule of a
\* program
ComputesClosure ==
    \/ walk'.call \in {"get_all_used_modules", "get_all_used_files"} /\ walk' # walk
    \/ /\ walk'.call = "write"
       /\ pc' # pc \/ walk' # walk \/ output' # output \/ project' # project
       /\ ~walk'.skip_programs
       /\ ~(output # <<>> /\ ~walk'.overwrite)
       /\ project.programs # <<>>

\* the part of the claim that is about the stages of __init__
StagesOfInit ==
    /\ [][pc' # pc => <<pc, pc'>> \in BuilderSteps]_vars
    /\ []StageHolds
    /\ [][HandedOver => BuiltKept]_vars

\* C27 (as the spec has it): the construction goes through Raw, ModulesIndexed,
\* IgnoresApplied, DirectDepsComputed, ClosuresComputed, Ready in this order,
\* each once and none undone; the closures are computed before the project is
\* handed to its caller, so none is computed after
C27_ClosuresBeforeReady ==
    /\ StagesOfInit
    /\ [][HandedOver => ~ComputesClosure]_vars

\* C27: the construction goes through Raw, ModulesIndexed, IgnoresApplied,
\* DirectDepsComputed, Ready in this order, each once and none undone: the
\* ignores are applied before a dependency is resolved and both maps of the
\* direct dependencies are there when the project is handed over; a closure
\* is computed only after that, by the call that asks for it
C27_StagesInOrder ==
    /\ StagesOfInit
    /\ [][ComputesClosure => HandedOver /\ BuiltKept]_vars

\* a project of which an ignored unit was registered has been handed over and
\* the closure of a unit that uses another was walked after that
C27_ClosureOnDemand ==
    /\ pc = "returned"
    /\ walk.call = "get_all_used_files"
    /\ walk.value # <<>>
    /\ project.ignore_modules # <<>>
    /\ \E n \in 1..Len(project.files) : \E m \in Range(project.files[n].modules) :
           m.name \in Range(project.ignore_modules)

\* ---------------------------------------------------------------------------
\* A macro given by its name only, and the directive "#define NAME"
\* ---------------------------------------------------------------------------

\* the table of a preprocessor made with macros=["A"], or after define("A")
FlagTable == MacrosFromList(<< <<"A">> >>, <<>>)

\* parse of the text that begins with "#define A", by a preprocessor that was
\* given no macro
WithDefineLine == ParsedAlone(<<DefineA>> \o text, <<>>, search_paths)

\* the first call of parse, by the preprocessor that was given the name A, has ended
FlagParseEnded == run = 1 /\ macros0 = FlagTable /\ pc \in {"done", "error"}

\* C29: parse with the macro A given by its name only ends as parse of the
\* same text with the line "#define A" before it: the same branches are
\* selected, every A of a line that is returned is replaced by the text of
\* the value of a flag, and no error is made that the directive does not make
C29_FlagLikeDefine ==
    FlagParseEnded =>
        /\ err = WithDefineLine.err
        /\ pc = "done" => contents = WithDefineLine.lines

\* the same up to the substitution: the branches selected and the names defined
C29_SameBranchesSelected ==
    (run = 1 /\ macros0 = FlagTable /\ (pc = "ifdone" \/ (pc = "error" /\ err # "TypeError"))) =>
        LET d == ParseDefineDirectives(IncludeLines(<<DefineA>> \o text, search_paths), <<>>)
            r == ParseIfDirectives(d.contents, d.macros)
        IN  IF pc = "error" THEN err = WithDefineLine.err
            ELSE r.err = "none" /\ contents = r.text /\ Names(macros) = Names(r.macros)

\* the same for the texts no returned line of which holds the name
C29_WhenNameNotInOutput ==
    (FlagParseEnded /\ err # "TypeError") =>
        /\ err = WithDefineLine.err
        /\ pc = "done" => contents = WithDefineLine.lines

\* the directive leaves "1" where the name given alone ends parse in TypeError
C29_FlagEndsInTypeError ==
    /\ FlagParseEnded
    /\ err = "TypeError"
    /\ WithDefineLine.err = "none"
    /\ \E i \in 1..Len(WithDefineLine.lines) : "1" \in Range(WithDefineLine.lines[i])

\* ---------------------------------------------------------------------------
\* The order of list(set(files)), and two files that define the same name
\* ---------------------------------------------------------------------------

MaxOrderFiles == 3   \* the files of a project whose order is free, at most

\* a file of one unit, "a" or the program "p", that uses nothing or uses "a"
OneUnitFiles(f) ==
    {[filename |-> f,
      modules |-> <<[name |-> n, unit_type |-> IF n = "p" THEN "program" ELSE "module",
                     uses |-> u, source_file |-> f]>>,
      uses |-> u] : n \in {"a", "p"}, u \in {<<>>, <<"a">>}}

\* the file lists that a caller may give: one file for each name of some names
FileLists ==
    UNION {{c \in [S -> UNION {OneUnitFiles(f) : f \in S}] : \A f \in S : c[f].filename = f} :
           S \in {T \in SUBSET FileNames : T # {} /\ Cardinality(T) <= MaxOrderFiles}}

\* __init__ has made self.files of list(set(files)): the files stand in any
\* order; files_given keeps the argument of the constructor
InitOrder ==
    /\ macros = <<>>
    /\ macros0 = <<>>
    /\ search_paths = <<>>
    /\ text = <<>>
    /\ contents = <<>>
    /\ ifs = <<>>
    /\ idx = 0
    /\ pc = "cfg"
    /\ err = "none"
    /\ run = 1
    /\ prev = <<>>
    /\ modules = <<>>
    /\ given = <<>>
    /\ fmodule = [impl |-> "none", unit_type |-> <<>>, name |-> <<>>, uses |-> <<>>,
                  found |-> FALSE]
    /\ uses = <<>>
    /\ \E c \in FileLists :
         \E order \in Orders({c[f] : f \in DOMAIN c}) :
           project = [files |-> order,
                      files_given |-> {c[f] : f \in DOMAIN c},
                      modules |-> <<>>, programs |-> <<>>, success |-> TRUE,
                      ignore_modules |-> <<>>,
                      depends_by_module |-> <<>>, depends_by_file |-> <<>>,
                      exec_given |-> FALSE, exec_names |-> <<>>]
    /\ walk = NoCall
    /\ output = <<>>

NextOrder ==
    \/ IndexModules
    \/ ApplyIgnores
    \/ DirectByModule
    \/ DirectByFile
    \/ Write

SpecOrder == InitOrder /\ [][NextOrder]_vars

\* the project that __init__ builds when self.files and the ignored names
\* stand in the orders given
BuiltFrom(files, ignore_modules) ==
    LET mods == ProjectModules(files, <<>>)
        programs == Filter(mods, {m \in Range(mods) : m.unit_type = "program"})
        raw == [files |-> files, modules |-> mods, programs |-> programs,
                success |-> TRUE, ignore_modules |-> <<>>,
                depends_by_module |-> <<>>, depends_by_file |-> <<>>,
                exec_given |-> FALSE, exec_names |-> DefaultExecNames(programs)]
        ignored == RemoveIgnoredAll(raw, ignore_modules)
        by_module == [ignored EXCEPT
                         !.depends_by_module = DependsByModule(ignored),
                         !.success = IF UnresolvedInModules(ignored) THEN FALSE ELSE @]
    IN  [by_module EXCEPT
            !.depends_by_file = DependsByFile(by_module),
            !.success = IF UnresolvedInFiles(by_module) THEN FALSE ELSE @]

\* the texts that write may leave for a project
WrittenTexts(p, skip_programs) ==
    LET start == [lines |-> <<HEADER>> \o FileRules(p), success |-> p.success, err |-> "none"]
    IN  {<<st.lines, st.err>> : st \in (IF skip_programs THEN {start}
                                       ELSE ProgramRules(p, 1, start))}

\* the defining file of every unit name
Registry(p) == {<<m.name, m.source_file>> : m \in Range(p.modules)}

\* the other constructions from the files and options of this project
OtherBuilds ==
    {BuiltFrom(q, io) : q \in Orders(project.files_given),
                        io \in Orders(Range(project.ignore_modules) \cup default_ignored_modules)}

SameRegistry(other) == Registry(other) = Registry(project)

\* the maps are the same dicts: the same keys with the same lists
SameMaps(other) ==
    /\ Range(other.depends_by_module) = Range(project.depends_by_module)
    /\ Range(other.depends_by_file) = Range(project.depends_by_file)

\* the text that was written is the one text that the other project can leave
SameText(other) ==
    (pc = "written" /\ output # <<>>) =>
        \A skip_programs \in BOOLEAN :
            <<output, "none">> \in WrittenTexts(project, skip_programs) =>
                WrittenTexts(other, skip_programs) = {<<output, "none">>}

\* the rules of a text, each with the set of its dependencies
RuleSet(lines) ==
    {[name |-> lines[i].name, source |-> lines[i].source, deps |-> Range(lines[i].deps)] :
        i \in 2..Len(lines)}

\* the rules that were written are those of the other project, in some order
SameRules(other) ==
    (pc = "written" /\ output # <<>>) =>
        \A skip_programs \in BOOLEAN :
            <<output, "none">> \in WrittenTexts(project, skip_programs) =>
                \A t \in WrittenTexts(other, skip_programs) :
                    t[2] = "none" /\ RuleSet(t[1]) = RuleSet(output)

\* no two files of the project define a unit of the same name
NamesDefinedOnce ==
    \A f, g \in project.files_given :
        f # g => {m.name : m \in Range(f.modules)} \cap {m.name : m \in Range(g.modules)} = {}

\* C30: a project that was built and written is the same as every other
\* construction from the same files and options, in whatever order the files
\* were iterated: the same defining file for every unit name, also when two
\* files define the same name, the same dependency maps, and the same rules
\* in the same order with the same dependencies in the same order
C30_SameForEveryFileOrder ==
    pc \in {"ready", "written"} =>
        \A other \in OtherBuilds : SameRegistry(other) /\ SameMaps(other) /\ SameText(other)

\* the same but for the order of the rules, for the projects whose unit names
\* are defined once each: registry, maps and the set of rules do not depend
\* on the order of the files
C30_WhenNamesDefinedOnce ==
    (pc \in {"ready", "written"} /\ NamesDefinedOnce) =>
        \A other \in OtherBuilds : SameRegistry(other) /\ SameMaps(other) /\ SameRules(other)

\* the registry of a project that is ready names another file for a unit
\* than another order of the same files does
C30_RegistryFollowsOrder ==
    /\ pc = "ready"
    /\ \E other \in OtherBuilds : ~SameRegistry(other)

\* the rules of a written project whose names are defined once stand in
\* another order than those of another order of the same files
C30_RuleOrderFollowsFiles ==
    /\ pc = "written"
    /\ NamesDefinedOnce
    /\ \E other \in OtherBuilds : ~SameText(other)

====
